---- MODULE Spec2Model ----
(***************************************************************************)
(* Model of the chat-completion gateway of src/app.py: one conversation    *)
(* turn handled by conversation_internal, on the primary-provider          *)
(* streaming path (stream_chat_request / process_function_call_stream)     *)
(* and on the non-streaming path (complete_chat_request /                  *)
(* process_function_call).  Two more specifications model the webhook      *)
(* providers: ProviderSpec is backend/chat_provider.py (SessionManager and *)
(* N8nChatProvider), N8nSpec is the webhook path of src/app.py.            *)
(* CosmosSpec is the startup task init() and the history endpoints that    *)
(* wait for it.                                                            *)
(*                                                                         *)
(* Text is modelled by TLA+ strings ("" is the empty text, \o is +).       *)
(* Python's None is the value None below.  Python dicts are records that   *)
(* carry exactly the keys the code sets.                                   *)
(***************************************************************************)
EXTENDS Integers, Sequences, FiniteSets, TLC

None == "None"

(* ---------------- bounds of the model ---------------- *)

\* chunks delivered by the first upstream stream of a turn
MaxChunks == 3
\* chunks delivered by the stream of one second round-trip
MaxSecondChunks == 1

\* calls of SessionManager.get_or_create_session in one behaviour
MaxCalls == 3
\* requests served by the webhook path of src/app.py in one behaviour
MaxN8nRequests == 2

(* ---------------- inputs ---------------- *)

\* tool names the registry endpoint returns (tool["function"]["name"])
RegistryTools == <<"f">>
\* names the provider may put in a tool call: "g" is in no registry
FunctionNames == {"f", "g"}
ToolCallIds == {"c1", "c2"}
\* texts returned by the remote function endpoint
ToolResponses == {"r1", "r2"}

\* a fragment that carries an id opens a call; the provider may leave out
\* the name and the arguments
StartFragments ==
    [id : ToolCallIds, name : FunctionNames, arguments : {None, "b"}]
    \cup { [id |-> "c2", name |-> None, arguments |-> None] }
\* a fragment without id continues the call in progress
ContinuationFragments ==
    [id : {None}, name : {None}, arguments : {"a", "b"}]
Fragments == StartFragments \cup ContinuationFragments
\* fragments that may share one chunk with another fragment
PairFragments ==
    { [id |-> "c1", name |-> "f", arguments |-> None],
      [id |-> "c2", name |-> "g", arguments |-> "b"],
      [id |-> None, name |-> None, arguments |-> "a"] }

\* completionChunk: has_choices is len(choices) > 0; the other fields are
\* those of choices[0].delta
TextChunk ==
    [has_choices |-> TRUE, tool_calls_is_none |-> TRUE, tool_calls |-> <<>>,
     content |-> "t"]
EmptyToolCallsChunk ==
    [has_choices |-> TRUE, tool_calls_is_none |-> FALSE, tool_calls |-> <<>>,
     content |-> "t"]
NoChoicesChunk ==
    [has_choices |-> FALSE, tool_calls_is_none |-> TRUE, tool_calls |-> <<>>,
     content |-> None]
FragmentChunk(frags) ==
    [has_choices |-> TRUE, tool_calls_is_none |-> FALSE, tool_calls |-> frags,
     content |-> None]
FragmentChunks ==
    { FragmentChunk(<<f>>) : f \in Fragments }
    \cup { FragmentChunk(<<f1, f2>>) : f1 \in PairFragments, f2 \in PairFragments }
PlainChunks == {TextChunk, EmptyToolCallsChunk, NoChoicesChunk}

\* request_body["messages"] as the frontend sends it
UserMessage == [role |-> "user", content |-> "hi"]
ToolMessage == [role |-> "tool", content |-> "cit"]
InitialConversations == { <<UserMessage>>, <<ToolMessage, UserMessage>> }

\* a complete (non-streamed) tool call of a response message
ResponseToolCalls ==
    [id : {"c1"}, name : FunctionNames, arguments : {"", "a"}]
\* response.choices[0].message of a non-streamed completion
Responses ==
    { [role |-> "assistant", content |-> "t", tool_calls_is_none |-> TRUE,
       tool_calls |-> <<>>] }
    \cup { [role |-> "assistant", content |-> None, tool_calls_is_none |-> FALSE,
            tool_calls |-> tcs] :
           tcs \in { <<a>> : a \in ResponseToolCalls }
                   \cup { <<a, b>> : a \in ResponseToolCalls, b \in ResponseToolCalls } }
PlainResponses == { r \in Responses : r.tool_calls_is_none }

\* history endpoints: one that checks the client before it uses it, one
\* that uses it unchecked, and /history/ensure
Handlers == {"add_conversation", "update_message", "ensure_cosmos"}
\* app.cosmos_conversation_client before init() has assigned the attribute
Unassigned == "unassigned"
CosmosClient == "CosmosConversationClient"

\* user and conversation identifiers; None and "" are the falsy ones
Users == {"u", "u:c"}
ConversationIds == {None, "", "d", "c:d"}

\* JSON values: what response.json() returns for a webhook answer
JNull == [type |-> "null"]
JStr(text) == [type |-> "str", value |-> text]
JList(items) == [type |-> "list", items |-> items]
\* a dict, its keys in insertion order
JDict(items) == [type |-> "dict", items |-> items]
Item(key, value) == [key |-> key, value |-> value]

\* bodies the webhook answers with
WebhookPayloads ==
    { JDict(<<Item("message", JStr("m"))>>),
      JDict(<<Item("output", JStr("o")), Item("message", JStr("m"))>>),
      JDict(<<Item("response", JStr("r"))>>),
      JDict(<<Item("text", JStr("t")), Item("extra", JStr("x"))>>),
      JDict(<<Item("message", JNull)>>),
      JDict(<<Item("reply", JStr("x"))>>),
      JDict(<<Item("reply", JNull)>>),
      JDict(<<Item("a", JStr("x")), Item("b", JStr("y"))>>),
      JDict(<<>>),
      JDict(<<Item("json", JDict(<<Item("output", JStr("hello"))>>))>>),
      JList(<<JStr("x")>>),
      JStr("s") }

\* what the POST of _call_n8n_webhook can raise: a timeout, a transport
\* error, a non-2xx status (raise_for_status), a body that is no JSON
WebhookExceptions ==
    {"TimeoutException", "ConnectError", "HTTPStatusError", "JSONDecodeError"}

\* conversations handed to the webhook provider
AssistantMessage == [role |-> "assistant", content |-> "t"]
ProviderConversations ==
    { <<>>,
      <<AssistantMessage>>,
      <<[role |-> "user", content |-> ""]>>,
      <<[role |-> "user"], AssistantMessage>>,
      <<[role |-> "user", content |-> "old"], AssistantMessage, UserMessage>>,
      <<UserMessage, AssistantMessage>> }
HistoryMetadata == [conversation_id : {None, "d"}]

\* request bodies of the webhook path of src/app.py: history_metadata and
\* conversation_id may be missing (None), messages may carry an id; a
\* content is a text or a list of items (JSON values, as they arrive)
TextItem(text) == JDict(<<Item("type", JStr("text")), Item("text", JStr(text))>>)
ImageItem == JDict(<<Item("type", JStr("image_url"))>>)
N8nUser1 == [role |-> "user", content |-> JStr("old"), id |-> "m1"]
N8nUser2 == [role |-> "user", content |-> JStr("hi"), id |-> "m2"]
N8nUserNoId == [role |-> "user", content |-> JStr("hi")]
N8nUserList ==
    [role |-> "user",
     content |-> JList(<<ImageItem, TextItem("hello"), TextItem("second")>>)]
N8nUserImage == [role |-> "user", content |-> JList(<<ImageItem>>)]
N8nAssistant == [role |-> "assistant", content |-> JStr("t"), id |-> "a1"]
N8nConversations ==
    { <<N8nAssistant>>,
      <<N8nUserNoId>>,
      <<N8nAssistant, N8nUser2>>,
      <<N8nUser1, N8nAssistant, N8nUser2>>,
      <<N8nUserNoId, N8nAssistant, N8nUser2>>,
      <<N8nUser1, N8nAssistant, N8nUserNoId>>,
      <<N8nUser2, N8nAssistant>>,
      <<N8nUser1, N8nAssistant, N8nUserList>>,
      <<N8nUserList, N8nUserImage, N8nAssistant>> }
N8nRequestBodies ==
    [history_metadata : [conversation_id : {None, "h"}],
     conversation_id : {None, "t"},
     messages : N8nConversations]
\* identifiers a request body can carry
N8nCarriedIds == {"h", "t", "m1", "m2", "a1"}

\* bodies the webhook of src/app.py answers with
N8nPayloads ==
    WebhookPayloads
    \cup { JNull,
           JList(<<>>),
           JDict(<<Item("data", JDict(<<Item("message", JStr("x"))>>))>>),
           JDict(<<Item("result", JStr("z")), Item("reply", JStr("x"))>>),
           JDict(<<Item("data", JDict(<<Item("message", JStr("x"))>>)),
                   Item("text", JStr("t"))>>),
           JDict(<<Item("output", JNull), Item("answer", JStr("a"))>>),
           JDict(<<Item("json", JDict(<<>>)), Item("output", JStr("o"))>>),
           JList(<<JDict(<<Item("output", JStr("o"))>>), JStr("x")>>) }

(* ---------------- state ---------------- *)

VARIABLES
    stream,                       \* app_settings.azure_openai.stream
    function_call_azure_functions_enabled,
    azure_openai_tools,           \* module-level list (tool names stand for tools)
    azure_openai_available_tools, \* module-level list of tool names
    request_json,                 \* the messages of the body as received
    request_messages,             \* request_body["messages"]
    pc,                           \* position of the turn's coroutine
    function_call_stream_state,   \* AzureOpenaiFunctionCallStreamState instance
    idx,                          \* position of the loop over tool calls
    response,                     \* first response of complete_chat_request
    function_response,            \* messages list of process_function_call
    non_streaming_response,       \* what complete_chat_request returns
    requests,                     \* model_args of every upstream create call
    emitted,                      \* what the generator has yielded, in order
    invoked,                      \* calls of openai_remote_azure_function_call
    outcome,                      \* how the turn ended
    error,                        \* the exception that ended it, or None
    received,                     \* history: fragments ingested, in order
    completed_returns,            \* history: chunks answered with COMPLETED
    splices,                      \* history: messages.extend(...) executed
    chunks_read,                  \* history: first-stream chunks read
    second_read,                  \* chunks read from the current second stream
    registry_fetches              \* history: answers to init_openai_client's GET

\* state of backend/chat_provider.py
VARIABLES
    _sessions,                    \* SessionManager._sessions: key -> session id
    session_calls,                \* history: calls of get_or_create_session
    provider_pc,                  \* position of the N8nChatProvider coroutine
    provider_call,                \* arguments and locals of the provider call
    webhook_calls,                \* history: bodies _call_n8n_webhook posted
    provider_result               \* what the call yielded or returned

\* state of the webhook path of src/app.py
VARIABLES
    n8n_configured,               \* app_settings.n8n: "ok", "no_url", "no_token"
    n8n_pc,                       \* position of _complete_n8n_request
    n8n_call,                     \* request and locals of the call in progress
    n8n_requests,                 \* history: each request, what was derived for it
    n8n_result,                   \* what the last request handed to the client
    \* ---- startup and history endpoints of src/app.py ----
    chat_history,                 \* app_settings.chat_history is configured
    cosmos_conversation_client,   \* app.cosmos_conversation_client
    cosmos_db_ready,              \* the asyncio.Event: TRUE when set
    init_pc,                      \* position of the before_serving task init()
    handler_pc,                   \* position of each history handler
    cosmos_uses                   \* history: what each handler read as the client

\* identifiers uuid.uuid4() has produced so far: the next one is uuids + 1
VARIABLE uuids

turn_vars ==
    <<stream, function_call_azure_functions_enabled, azure_openai_tools,
      azure_openai_available_tools, request_messages, pc,
      function_call_stream_state, idx, response, function_response,
      non_streaming_response, requests, emitted, invoked, outcome, error,
      received,
      completed_returns, splices, chunks_read, second_read, registry_fetches,
      request_json>>

provider_vars ==
    <<_sessions, session_calls, provider_pc, provider_call, webhook_calls,
      provider_result>>

n8n_vars == <<n8n_configured, n8n_pc, n8n_call, n8n_requests, n8n_result>>

cosmos_vars ==
    <<chat_history, cosmos_conversation_client, cosmos_db_ready, init_pc,
      handler_pc, cosmos_uses>>

vars == <<turn_vars, provider_vars, n8n_vars, uuids, cosmos_vars>>

\* the variables no step of a turn writes
settings == <<stream, function_call_azure_functions_enabled, request_json>>

\* the state of the webhook providers and of the history endpoints, which
\* the primary-provider path never touches
webhook_side == <<provider_vars, n8n_vars, uuids, cosmos_vars>>

(* ---------------- helpers ---------------- *)

\* Python truthiness of an optional text
Truthy(s) == s # None /\ s # ""

\* membership in a Python list
InList(x, l) == \E i \in 1..Len(l) : l[i] = x

\* current_tool_call = None
NoToolCall == [is_none |-> TRUE]

\* no call of a webhook provider has been made yet
NoCall == [method |-> None]

AzureOpenaiFunctionCallStreamState ==
    [tool_calls |-> <<>>,
     tool_name |-> "",
     tool_arguments_stream |-> "",
     current_tool_call |-> NoToolCall,
     function_messages |-> <<>>,
     streaming_state |-> "INITIAL"]

(* ---------------- ToolCallAccumulator ---------------- *)

\* `x.function.arguments if x.function.arguments else ""`
ArgumentsText(tool_call_chunk) ==
    IF Truthy(tool_call_chunk.arguments) THEN tool_call_chunk.arguments ELSE ""

\* the call in progress gets its arguments and joins tool_calls
\* (one dict object: the list entry and current_tool_call are the same dict)
FinalizeCurrentToolCall(s, arguments) ==
    LET call == [tool_id |-> s.current_tool_call.tool_id,
                 tool_name |-> s.current_tool_call.tool_name,
                 tool_arguments |-> arguments]
    IN  [s EXCEPT !.current_tool_call = call,
                  !.tool_calls = Append(@, call)]

\* IngestToolCallChunk with a continuation that replaces the buffer (= for +=)
IngestToolCallChunkReplacing(s, tool_call_chunk) ==
    IF Truthy(tool_call_chunk.id)
    THEN LET flushed ==
                 IF s.current_tool_call # NoToolCall
                 THEN [FinalizeCurrentToolCall(
                           s, s.tool_arguments_stream \o ArgumentsText(tool_call_chunk))
                       EXCEPT !.tool_arguments_stream = "", !.tool_name = ""]
                 ELSE s
         IN  [flushed EXCEPT !.current_tool_call =
                 [tool_id |-> tool_call_chunk.id,
                  tool_name |-> IF flushed.tool_name = ""
                                THEN tool_call_chunk.name
                                ELSE flushed.tool_name]]
    ELSE [s EXCEPT !.tool_arguments_stream = ArgumentsText(tool_call_chunk)]

\* body of `for tool_call_chunk in response_message.tool_calls`
IngestToolCallChunk(s, tool_call_chunk) ==
    IF Truthy(tool_call_chunk.id)
    THEN LET flushed ==
                 IF s.current_tool_call # NoToolCall
                 THEN [FinalizeCurrentToolCall(
                           s, s.tool_arguments_stream \o ArgumentsText(tool_call_chunk))
                       EXCEPT !.tool_arguments_stream = "", !.tool_name = ""]
                 ELSE s
         IN  [flushed EXCEPT !.current_tool_call =
                 [tool_id |-> tool_call_chunk.id,
                  tool_name |-> IF flushed.tool_name = ""
                                THEN tool_call_chunk.name
                                ELSE flushed.tool_name]]
    ELSE [s EXCEPT !.tool_arguments_stream = @ \o ArgumentsText(tool_call_chunk)]

RECURSIVE IngestToolCalls(_, _)
IngestToolCalls(s, tool_calls) ==
    IF tool_calls = <<>> THEN s
    ELSE IngestToolCalls(IngestToolCallChunk(s, Head(tool_calls)), Tail(tool_calls))

\* FunctionMessages with the two appends in the other order
FunctionMessagesResultFirst(tool_call, tool_response) ==
    << [tool_call_id |-> tool_call.tool_id,
        role |-> "function",
        name |-> tool_call.tool_name,
        content |-> tool_response],
       [role |-> "assistant",
        function_call |-> [name |-> tool_call.tool_name,
                           arguments |-> tool_call.tool_arguments],
        content |-> None] >>

\* the two messages appended for one executed call
FunctionMessages(tool_call, tool_response) ==
    << [role |-> "assistant",
        function_call |-> [name |-> tool_call.tool_name,
                           arguments |-> tool_call.tool_arguments],
        content |-> None],
       [tool_call_id |-> tool_call.tool_id,
        role |-> "function",
        name |-> tool_call.tool_name,
        content |-> tool_response] >>

\* an accumulator whose end-signal branch does not look at the state it is
\* in: it finalizes again when it is COMPLETED
process_function_call_stream_refinalizing(completionChunk, s) ==
    IF ~completionChunk.has_choices
    THEN [state |-> s, ret |-> None]
    ELSE IF /\ ~completionChunk.tool_calls_is_none
            /\ completionChunk.tool_calls # <<>>
            /\ s.streaming_state \in {"INITIAL", "STREAMING"}
    THEN [state |-> IngestToolCalls([s EXCEPT !.streaming_state = "STREAMING"],
                                    completionChunk.tool_calls),
          ret |-> None]
    ELSE IF /\ completionChunk.tool_calls_is_none
            /\ s.streaming_state \in {"STREAMING", "COMPLETED"}
    THEN IF s.current_tool_call = NoToolCall
         THEN [state |-> s, ret |-> "TypeError"]
         ELSE [state |-> FinalizeCurrentToolCall(s, s.tool_arguments_stream),
               ret |-> "AWAIT"]
    ELSE [state |-> s, ret |-> s.streaming_state]

\* an accumulator whose fragment branch does not look at the state it is
\* in: fragments that arrive after COMPLETED start it again
process_function_call_stream_restarting(completionChunk, s) ==
    IF ~completionChunk.has_choices
    THEN [state |-> s, ret |-> None]
    ELSE IF /\ ~completionChunk.tool_calls_is_none
            /\ completionChunk.tool_calls # <<>>
    THEN [state |-> IngestToolCalls([s EXCEPT !.streaming_state = "STREAMING"],
                                    completionChunk.tool_calls),
          ret |-> None]
    ELSE IF completionChunk.tool_calls_is_none /\ s.streaming_state = "STREAMING"
    THEN IF s.current_tool_call = NoToolCall
         THEN [state |-> s, ret |-> "TypeError"]
         ELSE [state |-> FinalizeCurrentToolCall(s, s.tool_arguments_stream),
               ret |-> "AWAIT"]
    ELSE [state |-> s, ret |-> s.streaming_state]

\* process_function_call_stream up to its first suspension: the new state and
\* what the coroutine does next.  ret is the returned value (None when the
\* function falls off its end), "AWAIT" when it suspends in the loop that
\* executes the calls, "TypeError" when it subscripts current_tool_call = None.
process_function_call_stream(completionChunk, s) ==
    IF ~completionChunk.has_choices
    THEN [state |-> s, ret |-> None]
    ELSE IF /\ ~completionChunk.tool_calls_is_none
            /\ completionChunk.tool_calls # <<>>
            /\ s.streaming_state \in {"INITIAL", "STREAMING"}
    THEN [state |-> IngestToolCalls([s EXCEPT !.streaming_state = "STREAMING"],
                                    completionChunk.tool_calls),
          ret |-> None]
    ELSE IF completionChunk.tool_calls_is_none /\ s.streaming_state = "STREAMING"
    THEN IF s.current_tool_call = NoToolCall
         THEN [state |-> s, ret |-> "TypeError"]
         ELSE [state |-> FinalizeCurrentToolCall(s, s.tool_arguments_stream),
               ret |-> "AWAIT"]
    ELSE [state |-> s, ret |-> s.streaming_state]

\* ShouldEmit that yields whatever is not the COMPLETED signal
ShouldEmitUnlessCompleted(stream_state) == stream_state # "COMPLETED"

\* `if stream_state == "INITIAL": yield ...`
ShouldEmit(stream_state) == stream_state = "INITIAL"

(* ---------------- request building ---------------- *)

\* the match statement of prepare_model_args, for one request message
PreparedMessage(message) ==
    IF message.role = "user"
    THEN << [role |-> message.role, content |-> message.content] >>
    ELSE IF message.role \in {"assistant", "function", "tool"}
    THEN << [k \in {"role", "content"}
                   \cup ({"name", "function_call"} \cap DOMAIN message)
             |-> message[k]] >>
    ELSE << >>

RECURSIVE PreparedMessages(_)
PreparedMessages(request_messages_) ==
    IF request_messages_ = <<>> THEN <<>>
    ELSE PreparedMessage(Head(request_messages_))
         \o PreparedMessages(Tail(request_messages_))

SystemMessage == [role |-> "system", content |-> "sys"]

\* model_args that carry the tools whatever the role of the last message
prepare_model_args_any_role(request_messages_, enabled, tools) ==
    LET messages == <<SystemMessage>> \o PreparedMessages(request_messages_)
    IN  [messages |-> messages,
         has_tools |-> enabled /\ Len(tools) > 0]

\* model_args; no datasource is configured, so the system message leads.
\* The tools key holds the module-level list itself (see send_chat_request).
prepare_model_args(request_messages_, enabled, tools) ==
    LET messages == <<SystemMessage>> \o PreparedMessages(request_messages_)
    IN  [messages |-> messages,
         has_tools |-> /\ messages[Len(messages)].role = "user"
                       /\ enabled
                       /\ Len(tools) > 0]

\* the messages taken as they are
UnfilteredMessages(messages) == messages

\* `if message.get("role") != 'tool'`
FilteredMessages(messages) == SelectSeq(messages, LAMBDA m : m.role # "tool")

\* the registry lists after a fetch of init_openai_client answered 200
ToolsAfterFetch(tools) == tools \o RegistryTools
AvailableToolsAfterFetch(available, tools) == available \o ToolsAfterFetch(tools)

\* send_chat_request: filters the messages, builds model_args, fetches the
\* registry (init_openai_client), calls create.  fetch is the registry
\* answer: "OK", "NOT_OK" (non-200), "EXC" (the GET raises).  The step is
\* the same whether create returns or raises; raised says which.
send_chat_request(fetch, raised) ==
    LET filtered == FilteredMessages(request_messages)
        model_args == prepare_model_args(filtered,
                                         function_call_azure_functions_enabled,
                                         azure_openai_tools)
        fetched == function_call_azure_functions_enabled /\ fetch = "OK"
        tools_after == IF fetched THEN ToolsAfterFetch(azure_openai_tools)
                       ELSE azure_openai_tools
    IN  /\ fetch \in (IF function_call_azure_functions_enabled
                      THEN {"OK", "NOT_OK", "EXC"} ELSE {"NONE"})
        /\ (fetch = "EXC") => raised
        /\ request_messages' = filtered
        /\ azure_openai_tools' = tools_after
        /\ azure_openai_available_tools' =
               IF fetched
               THEN AvailableToolsAfterFetch(azure_openai_available_tools,
                                             azure_openai_tools)
               ELSE azure_openai_available_tools
        /\ registry_fetches' =
               IF function_call_azure_functions_enabled
               THEN Append(registry_fetches, fetch) ELSE registry_fetches
        /\ requests' =
               IF fetch = "EXC" THEN requests
               ELSE Append(requests,
                           [messages |-> model_args.messages,
                            has_tools |-> model_args.has_tools,
                            tools |-> IF model_args.has_tools
                                      THEN tools_after ELSE <<>>])

\* whether the provider was offered tools in the first request of the turn
ToolsOffered == requests # <<>> /\ requests[1].has_tools

(* ---------------- initial state ---------------- *)

\* backend/chat_provider.py right after import: an empty session map, no
\* call in progress
ProviderIdle ==
    /\ _sessions = <<>>
    /\ session_calls = <<>>
    /\ provider_pc = "idle"
    /\ provider_call = NoCall
    /\ webhook_calls = <<>>
    /\ provider_result = <<>>

\* no webhook request of src/app.py has arrived
N8nIdle ==
    /\ n8n_configured = "ok"
    /\ n8n_pc = "idle"
    /\ n8n_call = NoCall
    /\ n8n_requests = <<>>
    /\ n8n_result = <<>>

\* src/app.py right after create_app(): the event is new, init() has not
\* run, no request has arrived
CosmosStart ==
    /\ cosmos_conversation_client = Unassigned
    /\ cosmos_db_ready = FALSE
    /\ init_pc = "start"
    /\ handler_pc = [h \in Handlers |-> "idle"]
    /\ cosmos_uses = {}

\* the history endpoints stay out of the picture
CosmosIdle ==
    /\ chat_history = FALSE
    /\ CosmosStart

\* The process has served none or one earlier request: the registry lists
\* are empty or hold one fetch.  The turn's request has just arrived.
Init ==
    /\ stream \in BOOLEAN
    /\ function_call_azure_functions_enabled \in BOOLEAN
    /\ azure_openai_tools \in
           (IF function_call_azure_functions_enabled
            THEN {<<>>, ToolsAfterFetch(<<>>)} ELSE {<<>>})
    /\ azure_openai_available_tools = azure_openai_tools
    /\ request_messages \in InitialConversations
    /\ request_json = request_messages
    /\ pc = "start"
    /\ function_call_stream_state = AzureOpenaiFunctionCallStreamState
    /\ idx = 0
    /\ response = None
    /\ function_response = <<>>
    /\ non_streaming_response = None
    /\ requests = <<>>
    /\ emitted = <<>>
    /\ invoked = <<>>
    /\ outcome = "pending"
    /\ error = None
    /\ received = <<>>
    /\ completed_returns = 0
    /\ splices = 0
    /\ chunks_read = 0
    /\ second_read = 0
    /\ registry_fetches = <<>>
    /\ ProviderIdle
    /\ CosmosIdle
    /\ N8nIdle
    /\ uuids = 0

(* ---------------- how a turn ends ---------------- *)

\* an exception leaves conversation_internal's try block: the handler
\* answers with the JSON error object and a status
ErrorResponse(exception) ==
    /\ pc' = "done"
    /\ outcome' = "error_response"
    /\ error' = exception

\* format_as_ndjson_error as a bare error object without a message role
format_as_ndjson_bare_error ==
    [object |-> "error", role |-> None, error |-> TRUE]

\* the chunk that closes a stream whose generator raised
format_as_ndjson_error ==
    [object |-> "chat.completion.chunk", role |-> "assistant", error |-> TRUE]

\* an exception leaves generate() while format_as_ndjson drains it
GeneratorRaises(exception) ==
    /\ emitted' = Append(emitted, format_as_ndjson_error)
    /\ pc' = "done"
    /\ outcome' = "stream_error"
    /\ error' = exception

\* what the generator yields for a chunk: the chunk of the first (pass 1) or
\* of a second upstream stream (pass 2), handed to format_stream_response
Yielded(pass, completionChunk) ==
    [pass |-> pass, chunk |-> completionChunk]

(* ---------------- stream_chat_request ---------------- *)

\* stream_chat_request: the first send_chat_request returns the stream
StreamFirstRequest(fetch) ==
    /\ pc = "start"
    /\ stream
    /\ send_chat_request(fetch, FALSE)
    /\ pc' = "read"
    /\ UNCHANGED <<settings, webhook_side, function_call_stream_state, idx, response,
                   function_response, non_streaming_response, emitted, invoked,
                   outcome, error, received, completed_returns, splices,
                   chunks_read, second_read>>

\* the first send_chat_request raises: no generator exists yet
StreamFirstRequestFails(fetch) ==
    /\ pc = "start"
    /\ stream
    /\ send_chat_request(fetch, TRUE)
    /\ ErrorResponse("UpstreamError")
    /\ UNCHANGED <<settings, webhook_side, function_call_stream_state, idx, response,
                   function_response, non_streaming_response, emitted, invoked,
                   received, completed_returns, splices, chunks_read,
                   second_read>>

\* chunks the first upstream stream may deliver: tool-call fragments only
\* when the request offered tools
StreamChunks == IF ToolsOffered THEN PlainChunks \cup FragmentChunks ELSE PlainChunks

\* `if stream_state == "COMPLETED"` up to the await of send_chat_request
SpliceFunctionMessages(s) ==
    /\ request_messages' = request_messages \o s.function_messages
    /\ splices' = splices + 1
    /\ completed_returns' = completed_returns + 1
    /\ second_read' = 0
    /\ pc' = "send2"

\* one iteration of `async for completionChunk in response`, function
\* calling enabled, up to its first suspension
ReadChunk(completionChunk) ==
    /\ pc = "read"
    /\ function_call_azure_functions_enabled
    /\ chunks_read < MaxChunks
    /\ completionChunk \in StreamChunks
    /\ chunks_read' = chunks_read + 1
    /\ LET r == process_function_call_stream(completionChunk,
                                             function_call_stream_state)
       IN  /\ function_call_stream_state' = r.state
           /\ received' =
                  IF r.ret = None /\ completionChunk.has_choices
                  THEN received \o completionChunk.tool_calls
                  ELSE received
           /\ CASE r.ret = "TypeError" ->
                     /\ GeneratorRaises("TypeError")
                     /\ UNCHANGED <<request_messages, splices, completed_returns,
                                    second_read, idx>>
                [] r.ret = "AWAIT" ->
                     /\ pc' = "invoke"
                     /\ idx' = 1
                     /\ UNCHANGED <<request_messages, splices, completed_returns,
                                    second_read, emitted, outcome, error>>
                [] r.ret = "COMPLETED" ->
                     /\ SpliceFunctionMessages(r.state)
                     /\ UNCHANGED <<idx, emitted, outcome, error>>
                [] OTHER ->
                     /\ emitted' = IF ShouldEmit(r.ret)
                                   THEN Append(emitted, Yielded(1, completionChunk))
                                   ELSE emitted
                     /\ UNCHANGED <<pc, request_messages, splices,
                                    completed_returns, second_read, idx, outcome,
                                    error>>
    /\ UNCHANGED <<settings, webhook_side, registry_fetches, azure_openai_tools, azure_openai_available_tools,
                   response, function_response, non_streaming_response, requests,
                   invoked>>

\* one iteration of the loop of the branch without function calling
ReadChunkPlain(completionChunk) ==
    /\ pc = "read"
    /\ ~function_call_azure_functions_enabled
    /\ chunks_read < MaxChunks
    /\ completionChunk \in StreamChunks
    /\ chunks_read' = chunks_read + 1
    /\ emitted' = Append(emitted, Yielded(1, completionChunk))
    /\ UNCHANGED <<settings, webhook_side, registry_fetches, azure_openai_tools, azure_openai_available_tools,
                   request_messages, pc, function_call_stream_state, idx,
                   response, function_response, non_streaming_response, requests,
                   invoked, outcome, error, received, completed_returns, splices,
                   second_read>>

\* reading the next chunk of the first stream raises
ReadChunkFails ==
    /\ pc = "read"
    /\ GeneratorRaises("ReadError")
    /\ UNCHANGED <<settings, webhook_side, registry_fetches, azure_openai_tools, azure_openai_available_tools,
                   request_messages, function_call_stream_state, idx, response,
                   function_response, non_streaming_response, requests, invoked,
                   received, completed_returns, splices, chunks_read,
                   second_read>>

\* the first stream is exhausted: generate() returns
EndOfStream ==
    /\ pc = "read"
    /\ pc' = "done"
    /\ outcome' = "stream_end"
    /\ UNCHANGED <<settings, webhook_side, registry_fetches, azure_openai_tools, azure_openai_available_tools,
                   request_messages, function_call_stream_state, idx, response,
                   function_response, non_streaming_response, requests, emitted,
                   invoked, error, received, completed_returns, splices,
                   chunks_read, second_read>>

(* ---------------- SideEffectInvoker, streaming path ---------------- *)

\* exceptions of openai_remote_azure_function_call: json.loads of the
\* arguments, the POST, raise_for_status
InvokeExceptions(function_args) ==
    IF function_args = "" THEN {"JSONDecodeError"}
    ELSE {"JSONDecodeError", "ConnectError", "HTTPStatusError"}

\* one iteration of `for tool_call in function_call_stream_state.tool_calls`:
\* the call returns; after the last call the function returns COMPLETED
InvokeReturns(tool_response) ==
    /\ pc = "invoke"
    /\ stream
    /\ tool_response \in ToolResponses
    /\ LET s == function_call_stream_state
           tool_call == s.tool_calls[idx]
           appended == [s EXCEPT !.function_messages =
                            @ \o FunctionMessages(tool_call, tool_response)]
           completed == [appended EXCEPT !.streaming_state = "COMPLETED"]
       IN  /\ tool_call.tool_arguments # ""
           /\ invoked' = Append(invoked, [name |-> tool_call.tool_name,
                                          arguments |-> tool_call.tool_arguments,
                                          result |-> tool_response])
           /\ IF idx < Len(s.tool_calls)
              THEN /\ function_call_stream_state' = appended
                   /\ idx' = idx + 1
                   /\ UNCHANGED <<pc, request_messages, splices,
                                  completed_returns, second_read>>
              ELSE /\ function_call_stream_state' = completed
                   /\ SpliceFunctionMessages(completed)
                   /\ UNCHANGED idx
    /\ UNCHANGED <<settings, webhook_side, registry_fetches, azure_openai_tools, azure_openai_available_tools,
                   response, function_response, non_streaming_response, requests,
                   emitted, outcome, error, received, chunks_read>>

\* InvokeRaises with the exception caught and logged inside the loop: the
\* call counts as answered with None and the loop goes on
InvokeRaisesSwallowed(exception) ==
    /\ pc = "invoke"
    /\ stream
    /\ LET s == function_call_stream_state
           tool_call == s.tool_calls[idx]
           appended == [s EXCEPT !.function_messages =
                            @ \o FunctionMessages(tool_call, None)]
           completed == [appended EXCEPT !.streaming_state = "COMPLETED"]
       IN  /\ exception \in InvokeExceptions(tool_call.tool_arguments)
           /\ invoked' = Append(invoked, [name |-> tool_call.tool_name,
                                          arguments |-> tool_call.tool_arguments,
                                          result |-> exception])
           /\ error' = exception
           /\ IF idx < Len(s.tool_calls)
              THEN /\ function_call_stream_state' = appended
                   /\ idx' = idx + 1
                   /\ UNCHANGED <<pc, request_messages, splices,
                                  completed_returns, second_read>>
              ELSE /\ function_call_stream_state' = completed
                   /\ SpliceFunctionMessages(completed)
                   /\ UNCHANGED idx
    /\ UNCHANGED <<settings, webhook_side, registry_fetches, azure_openai_tools, azure_openai_available_tools,
                   response, function_response, non_streaming_response, requests,
                   emitted, outcome, received, chunks_read>>

\* the call raises: the exception leaves process_function_call_stream and
\* generate()
InvokeRaises(exception) ==
    /\ pc = "invoke"
    /\ stream
    /\ LET tool_call == function_call_stream_state.tool_calls[idx]
       IN  /\ exception \in InvokeExceptions(tool_call.tool_arguments)
           /\ invoked' = Append(invoked, [name |-> tool_call.tool_name,
                                          arguments |-> tool_call.tool_arguments,
                                          result |-> exception])
    /\ GeneratorRaises(exception)
    /\ UNCHANGED <<settings, webhook_side, registry_fetches, azure_openai_tools, azure_openai_available_tools,
                   request_messages, function_call_stream_state, idx, response,
                   function_response, non_streaming_response, requests, received,
                   completed_returns, splices, chunks_read, second_read>>

(* ---------------- second round-trip, streaming path ---------------- *)

SendSecondRequest(fetch) ==
    /\ pc = "send2"
    /\ stream
    /\ send_chat_request(fetch, FALSE)
    /\ pc' = "read2"
    /\ UNCHANGED <<settings, webhook_side, function_call_stream_state, idx, response,
                   function_response, non_streaming_response, emitted, invoked,
                   outcome, error, received, completed_returns, splices,
                   chunks_read, second_read>>

SendSecondRequestFails(fetch) ==
    /\ pc = "send2"
    /\ stream
    /\ send_chat_request(fetch, TRUE)
    /\ GeneratorRaises("UpstreamError")
    /\ UNCHANGED <<settings, webhook_side, function_call_stream_state, idx, response,
                   function_response, non_streaming_response, invoked, received,
                   completed_returns, splices, chunks_read, second_read>>

\* one iteration of `async for functionCompletionChunk in function_response`
ReadSecondChunk ==
    /\ pc = "read2"
    /\ second_read < MaxSecondChunks
    /\ second_read' = second_read + 1
    /\ emitted' = Append(emitted, Yielded(2, TextChunk))
    /\ UNCHANGED <<settings, webhook_side, registry_fetches, azure_openai_tools, azure_openai_available_tools,
                   request_messages, pc, function_call_stream_state, idx,
                   response, function_response, non_streaming_response, requests,
                   invoked, outcome, error, received, completed_returns, splices,
                   chunks_read>>

ReadSecondChunkFails ==
    /\ pc = "read2"
    /\ GeneratorRaises("ReadError")
    /\ UNCHANGED <<settings, webhook_side, registry_fetches, azure_openai_tools, azure_openai_available_tools,
                   request_messages, function_call_stream_state, idx, response,
                   function_response, non_streaming_response, requests, invoked,
                   received, completed_returns, splices, chunks_read,
                   second_read>>

\* the second stream is exhausted: the outer loop goes on
SecondStreamEnds ==
    /\ pc = "read2"
    /\ pc' = "read"
    /\ UNCHANGED <<settings, webhook_side, registry_fetches, azure_openai_tools, azure_openai_available_tools,
                   request_messages, function_call_stream_state, idx, response,
                   function_response, non_streaming_response, requests, emitted,
                   invoked, outcome, error, received, completed_returns, splices,
                   chunks_read, second_read>>

(* ---------------- complete_chat_request ---------------- *)

\* what complete_chat_request returns: the response of round-trip n, handed
\* to format_non_streaming_response
NonStreamingResponse(n, response_) ==
    [round |-> n, message |-> response_]

\* process_function_call without its `continue`: every tool call is taken
NextToolCallUnfiltered(tool_calls, i, available) == i

\* process_function_call: index of the first tool call at or after i whose
\* name passes `tool_call.function.name not in azure_openai_available_tools`,
\* Len + 1 when the loop runs out
RECURSIVE NextAvailableToolCall(_, _, _)
NextAvailableToolCall(tool_calls, i, available) ==
    IF i > Len(tool_calls) THEN i
    ELSE IF InList(tool_calls[i].name, available) THEN i
    ELSE NextAvailableToolCall(tool_calls, i + 1, available)

\* `if function_response:` -- extend the conversation and go for the second
\* request, or return the first response
AfterProcessFunctionCall(messages) ==
    IF messages # <<>>
    THEN /\ request_messages' = request_messages \o messages
         /\ splices' = splices + 1
         /\ pc' = "send2"
         /\ UNCHANGED outcome
    ELSE /\ pc' = "done"
         /\ outcome' = "returned"
         /\ UNCHANGED <<request_messages, splices>>

\* complete_chat_request up to its first suspension after the first
\* send_chat_request returned response_
CompleteFirstRequest(fetch, response_) ==
    /\ pc = "start"
    /\ ~stream
    /\ send_chat_request(fetch, FALSE)
    /\ response_ \in (IF requests'[1].has_tools THEN Responses ELSE PlainResponses)
    /\ response' = response_
    /\ non_streaming_response' = NonStreamingResponse(1, response_)
    /\ LET first == NextAvailableToolCall(response_.tool_calls, 1,
                                          azure_openai_available_tools')
       IN  IF /\ function_call_azure_functions_enabled
              /\ response_.tool_calls # <<>>
              /\ first <= Len(response_.tool_calls)
           THEN /\ pc' = "invoke"
                /\ idx' = first
                /\ UNCHANGED <<outcome, splices>>
           ELSE /\ pc' = "done"
                /\ outcome' = "returned"
                /\ UNCHANGED <<idx, splices>>
    /\ UNCHANGED <<settings, webhook_side, function_call_stream_state, function_response,
                   emitted, invoked, error, received, completed_returns,
                   chunks_read, second_read>>

CompleteFirstRequestFails(fetch) ==
    /\ pc = "start"
    /\ ~stream
    /\ send_chat_request(fetch, TRUE)
    /\ ErrorResponse("UpstreamError")
    /\ UNCHANGED <<settings, webhook_side, function_call_stream_state, idx, response,
                   function_response, non_streaming_response, emitted, invoked,
                   received, completed_returns, splices, chunks_read,
                   second_read>>

\* the two messages process_function_call appends for one executed call
ProcessFunctionCallMessages(response_, tool_call, function_response_) ==
    << [role |-> response_.role,
        function_call |-> [name |-> tool_call.name,
                           arguments |-> tool_call.arguments],
        content |-> None],
       [role |-> "function",
        name |-> tool_call.name,
        content |-> function_response_] >>

\* one executed call of the loop of process_function_call, and what follows
\* it up to the next suspension
CompleteInvokeReturns(tool_response) ==
    /\ pc = "invoke"
    /\ ~stream
    /\ tool_response \in ToolResponses
    /\ LET tool_call == response.tool_calls[idx]
           messages == function_response
                       \o ProcessFunctionCallMessages(response, tool_call,
                                                      tool_response)
           next == NextAvailableToolCall(response.tool_calls, idx + 1,
                                         azure_openai_available_tools)
       IN  /\ tool_call.arguments # ""
           /\ invoked' = Append(invoked, [name |-> tool_call.name,
                                          arguments |-> tool_call.arguments,
                                          result |-> tool_response])
           /\ function_response' = messages
           /\ IF next <= Len(response.tool_calls)
              THEN /\ idx' = next
                   /\ UNCHANGED <<pc, request_messages, splices, outcome>>
              ELSE /\ AfterProcessFunctionCall(messages)
                   /\ UNCHANGED idx
    /\ UNCHANGED <<settings, webhook_side, registry_fetches, azure_openai_tools, azure_openai_available_tools,
                   function_call_stream_state, response, non_streaming_response,
                   requests, emitted, error, received, completed_returns,
                   chunks_read, second_read>>

\* the call raises: the exception leaves complete_chat_request
CompleteInvokeRaises(exception) ==
    /\ pc = "invoke"
    /\ ~stream
    /\ LET tool_call == response.tool_calls[idx]
       IN  /\ exception \in InvokeExceptions(tool_call.arguments)
           /\ invoked' = Append(invoked, [name |-> tool_call.name,
                                          arguments |-> tool_call.arguments,
                                          result |-> exception])
    /\ ErrorResponse(exception)
    /\ UNCHANGED <<settings, webhook_side, registry_fetches, azure_openai_tools, azure_openai_available_tools,
                   request_messages, function_call_stream_state, idx, response,
                   function_response, non_streaming_response, requests, emitted,
                   received, completed_returns, splices, chunks_read,
                   second_read>>

\* a complete_chat_request that handed the second response to
\* process_function_call again
CompleteSecondRequestProcessed(fetch, response_) ==
    /\ pc = "send2"
    /\ ~stream
    /\ response_ \in Responses
    /\ send_chat_request(fetch, FALSE)
    /\ non_streaming_response' = NonStreamingResponse(2, response_)
    /\ response' = response_
    /\ LET first == NextAvailableToolCall(response_.tool_calls, 1,
                                          azure_openai_available_tools')
       IN  IF first <= Len(response_.tool_calls)
           THEN /\ pc' = "invoke"
                /\ idx' = first
                /\ UNCHANGED outcome
           ELSE /\ pc' = "done"
                /\ outcome' = "returned"
                /\ UNCHANGED idx
    /\ UNCHANGED <<settings, webhook_side, function_call_stream_state,
                   function_response, emitted, invoked, error, received,
                   completed_returns, splices, chunks_read, second_read>>

\* the second send_chat_request returns: its response is what the turn returns
CompleteSecondRequest(fetch, response_) ==
    /\ pc = "send2"
    /\ ~stream
    /\ response_ \in Responses
    /\ send_chat_request(fetch, FALSE)
    /\ non_streaming_response' = NonStreamingResponse(2, response_)
    /\ pc' = "done"
    /\ outcome' = "returned"
    /\ UNCHANGED <<settings, webhook_side, function_call_stream_state, idx, response,
                   function_response, emitted, invoked, error, received,
                   completed_returns, splices, chunks_read, second_read>>

CompleteSecondRequestFails(fetch) ==
    /\ pc = "send2"
    /\ ~stream
    /\ send_chat_request(fetch, TRUE)
    /\ ErrorResponse("UpstreamError")
    /\ UNCHANGED <<settings, webhook_side, function_call_stream_state, idx, response,
                   function_response, non_streaming_response, emitted, invoked,
                   received, completed_returns, splices, chunks_read,
                   second_read>>

(* ================= backend/chat_provider.py ================= *)

\* str(uuid.uuid4()) when n identifiers have been generated: a text no
\* earlier call has produced
Uuid4(n) == "uuid-" \o ToString(n + 1)

\* dict access: `key in d` and d[key]
JHasKey(d, key) == \E i \in 1..Len(d.items) : d.items[i].key = key
JGet(d, key) ==
    d.items[CHOOSE i \in 1..Len(d.items) : d.items[i].key = key].value

\* json.dumps(value) with the default separators, and Python's repr(value)
RECURSIVE JsonDumps(_), JsonDumpsList(_, _), JsonDumpsItems(_, _)
RECURSIVE PyRepr(_), PyReprList(_, _), PyReprItems(_, _)
JsonDumps(v) ==
    CASE v.type = "null" -> "null"
      [] v.type = "str" -> "\"" \o v.value \o "\""
      [] v.type = "list" -> "[" \o JsonDumpsList(v.items, 1) \o "]"
      [] v.type = "dict" -> "{" \o JsonDumpsItems(v.items, 1) \o "}"
JsonDumpsList(items, i) ==
    IF i > Len(items) THEN ""
    ELSE JsonDumps(items[i])
         \o (IF i < Len(items) THEN ", " ELSE "")
         \o JsonDumpsList(items, i + 1)
JsonDumpsItems(items, i) ==
    IF i > Len(items) THEN ""
    ELSE "\"" \o items[i].key \o "\": " \o JsonDumps(items[i].value)
         \o (IF i < Len(items) THEN ", " ELSE "")
         \o JsonDumpsItems(items, i + 1)
PyRepr(v) ==
    CASE v.type = "null" -> "None"
      [] v.type = "str" -> "'" \o v.value \o "'"
      [] v.type = "list" -> "[" \o PyReprList(v.items, 1) \o "]"
      [] v.type = "dict" -> "{" \o PyReprItems(v.items, 1) \o "}"
PyReprList(items, i) ==
    IF i > Len(items) THEN ""
    ELSE PyRepr(items[i])
         \o (IF i < Len(items) THEN ", " ELSE "")
         \o PyReprList(items, i + 1)
PyReprItems(items, i) ==
    IF i > Len(items) THEN ""
    ELSE "'" \o items[i].key \o "': " \o PyRepr(items[i].value)
         \o (IF i < Len(items) THEN ", " ELSE "")
         \o PyReprItems(items, i + 1)

\* str(value)
PyStr(v) == IF v.type = "str" THEN v.value ELSE PyRepr(v)

\* a key that leaves out the user
SessionKeyByConversation(user_id, conversation_id) == conversation_id

\* f"{user_id}:{conversation_id}"
SessionKey(user_id, conversation_id) == user_id \o ":" \o conversation_id

\* a manager that generates a new identifier for a key it already holds
get_or_create_session_renewing(sessions, n, user_id, conversation_id) ==
    IF ~Truthy(conversation_id)
    THEN [sessions |-> sessions, uuids |-> n + 1, session_id |-> Uuid4(n)]
    ELSE LET key == SessionKey(user_id, conversation_id)
         IN  [sessions |-> [k \in DOMAIN sessions \cup {key} |->
                                IF k = key THEN Uuid4(n) ELSE sessions[k]],
              uuids |-> n + 1,
              session_id |-> Uuid4(n)]

\* a manager without the `if not conversation_id` branch: a missing
\* conversation id is keyed like any other
get_or_create_session_keying_none(sessions, n, user_id, conversation_id) ==
    LET key == SessionKey(user_id, conversation_id)
    IN  IF key \notin DOMAIN sessions
        THEN [sessions |-> [k \in DOMAIN sessions \cup {key} |->
                               IF k = key THEN Uuid4(n) ELSE sessions[k]],
              uuids |-> n + 1,
              session_id |-> Uuid4(n)]
        ELSE [sessions |-> sessions, uuids |-> n, session_id |-> sessions[key]]

\* SessionManager.get_or_create_session on the map `sessions` when n
\* identifiers have been generated: the map, the count and the returned id
get_or_create_session(sessions, n, user_id, conversation_id) ==
    IF ~Truthy(conversation_id)
    THEN [sessions |-> sessions, uuids |-> n + 1, session_id |-> Uuid4(n)]
    ELSE LET key == SessionKey(user_id, conversation_id)
         IN  IF key \notin DOMAIN sessions
             THEN [sessions |-> [k \in DOMAIN sessions \cup {key} |->
                                    IF k = key THEN Uuid4(n) ELSE sessions[k]],
                   uuids |-> n + 1,
                   session_id |-> Uuid4(n)]
             ELSE [sessions |-> sessions, uuids |-> n,
                   session_id |-> sessions[key]]

\* a call of _session_manager.get_or_create_session and its record in the
\* history
CallGetOrCreateSession(user_id, conversation_id) ==
    LET r == get_or_create_session(_sessions, uuids, user_id, conversation_id)
    IN  /\ _sessions' = r.sessions
        /\ session_calls' =
               Append(session_calls,
                      [user_id |-> user_id,
                       conversation_id |-> conversation_id,
                       session_id |-> r.session_id])

\* N8nChatProvider._extract_assistant_message
_extract_assistant_message(n8n_response) ==
    IF n8n_response.type = "dict"
    THEN CASE JHasKey(n8n_response, "message") ->
                  PyStr(JGet(n8n_response, "message"))
           [] JHasKey(n8n_response, "output") ->
                  PyStr(JGet(n8n_response, "output"))
           [] JHasKey(n8n_response, "response") ->
                  PyStr(JGet(n8n_response, "response"))
           [] JHasKey(n8n_response, "text") ->
                  PyStr(JGet(n8n_response, "text"))
           [] OTHER ->
                  IF /\ Len(n8n_response.items) = 1
                     /\ n8n_response.items[1].value # JNull
                  THEN PyStr(n8n_response.items[1].value)
                  ELSE JsonDumps(n8n_response)
    ELSE JsonDumps(n8n_response)

\* N8nChatProvider._format_response_chunk
_format_response_chunk(content, history_metadata, message_id, is_final) ==
    [id |-> message_id,
     model |-> "n8n-webhook",
     created |-> "",
     object |-> IF ~is_final THEN "chat.completion.chunk" ELSE "chat.completion",
     choices |-> << [messages |-> << [role |-> "assistant",
                                      content |-> content] >>] >>,
     history_metadata |-> history_metadata,
     apim_request_id |-> ""]

friendly_message ==
    "I'm sorry, but I encountered an error processing your request. "
    \o "Please try again. If the problem persists, please start a new conversation."

\* N8nChatProvider._format_error_response: error_message is only logged
_format_error_response(error_message, history_metadata, message_id) ==
    _format_response_chunk(friendly_message, history_metadata, message_id, TRUE)

\* `for msg in reversed(messages): if msg.get("role") == "user": ...`: the
\* content of the last user message ("" when it has none), None without one
LastUserMessage(messages) ==
    LET users == {i \in 1..Len(messages) : messages[i].role = "user"}
    IN  IF users = {} THEN None
        ELSE LET msg == messages[CHOOSE i \in users : \A j \in users : j <= i]
             IN  IF "content" \in DOMAIN msg THEN msg.content ELSE ""

\* a direct call of SessionManager.get_or_create_session
GetOrCreateSession(user_id, conversation_id) ==
    /\ Len(session_calls) < MaxCalls
    /\ CallGetOrCreateSession(user_id, conversation_id)
    /\ uuids' = get_or_create_session(_sessions, uuids, user_id,
                                      conversation_id).uuids
    /\ UNCHANGED <<turn_vars, cosmos_vars, n8n_vars, provider_pc, provider_call,
                   webhook_calls, provider_result>>


\* a provider method that does not check for a user message
N8nChatProviderSendUnchecked(method, messages, history_metadata, user_id) ==
    /\ provider_pc = "idle"
    /\ provider_call = NoCall
    /\ Len(session_calls) < MaxCalls
    /\ LET user_message == LastUserMessage(messages)
           r == get_or_create_session(_sessions, uuids, user_id,
                                      history_metadata.conversation_id)
       IN  /\ CallGetOrCreateSession(user_id, history_metadata.conversation_id)
           /\ uuids' = r.uuids
           /\ provider_call' =
                  [method |-> method, messages |-> messages,
                   history_metadata |-> history_metadata, user_id |-> user_id,
                   user_message |-> user_message, session_id |-> r.session_id]
           /\ webhook_calls' =
                  Append(webhook_calls, [chatInput |-> user_message,
                                         sessionId |-> r.session_id])
    /\ provider_pc' = "webhook"
    /\ provider_result' = <<>>
    /\ UNCHANGED <<turn_vars, cosmos_vars, n8n_vars>>

\* send_message and send_message_non_streaming up to the await of
\* _call_n8n_webhook, or to their end when no user message is found
N8nChatProviderSend(method, messages, history_metadata, user_id) ==
    /\ provider_pc = "idle"
    /\ provider_call = NoCall
    /\ LET user_message == LastUserMessage(messages)
           r == get_or_create_session(_sessions, uuids, user_id,
                                      history_metadata.conversation_id)
       IN  IF ~Truthy(user_message)
           THEN /\ provider_call' =
                       [method |-> method, messages |-> messages,
                        history_metadata |-> history_metadata,
                        user_id |-> user_id, user_message |-> user_message]
                /\ provider_result' =
                       << _format_error_response("No user message found",
                                                 history_metadata,
                                                 Uuid4(uuids)) >>
                /\ uuids' = uuids + 1
                /\ UNCHANGED <<_sessions, session_calls, webhook_calls,
                               provider_pc>>
           ELSE /\ Len(session_calls) < MaxCalls
                /\ CallGetOrCreateSession(user_id,
                                          history_metadata.conversation_id)
                /\ uuids' = r.uuids
                /\ provider_call' =
                       [method |-> method, messages |-> messages,
                        history_metadata |-> history_metadata,
                        user_id |-> user_id, user_message |-> user_message,
                        session_id |-> r.session_id]
                /\ webhook_calls' =
                       Append(webhook_calls, [chatInput |-> user_message,
                                              sessionId |-> r.session_id])
                /\ provider_pc' = "webhook"
                /\ provider_result' = <<>>
    /\ UNCHANGED <<turn_vars, cosmos_vars, n8n_vars>>

\* async generator send_message
SendMessage(messages, history_metadata, user_id) ==
    /\ messages \in ProviderConversations
    /\ N8nChatProviderSend("send_message", messages, history_metadata, user_id)

\* coroutine send_message_non_streaming
SendMessageNonStreaming(messages, history_metadata, user_id) ==
    /\ messages \in ProviderConversations
    /\ N8nChatProviderSend("send_message_non_streaming", messages,
                           history_metadata, user_id)

\* a call's frame with the local `name` bound to value
WithLocal(call, name, value) ==
    [k \in DOMAIN call \cup {name} |-> IF k = name THEN value ELSE call[k]]

\* _call_n8n_webhook returns response.json(): the method extracts the text
\* and yields (returns) it as its one, final chunk
WebhookReturns(n8n_response) ==
    /\ provider_pc = "webhook"
    /\ n8n_response \in WebhookPayloads
    /\ provider_call' = WithLocal(provider_call, "n8n_response", n8n_response)
    /\ provider_result' =
           << _format_response_chunk(_extract_assistant_message(n8n_response),
                                     provider_call.history_metadata,
                                     Uuid4(uuids), TRUE) >>
    /\ uuids' = uuids + 1
    /\ provider_pc' = "idle"
    /\ UNCHANGED <<turn_vars, cosmos_vars, n8n_vars, _sessions, session_calls,
                   webhook_calls>>

\* what the except clauses of the two methods pass to _format_error_response
ProviderErrorMessage(exception) ==
    CASE exception = "TimeoutException" ->
             "Request timeout - n8n webhook did not respond in time"
      [] exception \in {"ConnectError", "HTTPStatusError"} ->
             "n8n webhook HTTP error: " \o exception
      [] OTHER -> "Unexpected error: " \o exception

\* a method without except clauses: the exception ends it with no element
WebhookRaisesUnhandled(exception) ==
    /\ provider_pc = "webhook"
    /\ exception \in WebhookExceptions
    /\ provider_call' = WithLocal(provider_call, "exception", exception)
    /\ provider_pc' = "idle"
    /\ UNCHANGED <<turn_vars, cosmos_vars, n8n_vars, _sessions, session_calls,
                   webhook_calls, provider_result, uuids>>

\* _call_n8n_webhook raises: one of the except clauses answers
WebhookRaises(exception) ==
    /\ provider_pc = "webhook"
    /\ exception \in WebhookExceptions
    /\ provider_call' = WithLocal(provider_call, "exception", exception)
    /\ provider_result' =
           << _format_error_response(ProviderErrorMessage(exception),
                                     provider_call.history_metadata,
                                     Uuid4(uuids)) >>
    /\ uuids' = uuids + 1
    /\ provider_pc' = "idle"
    /\ UNCHANGED <<turn_vars, cosmos_vars, n8n_vars, _sessions, session_calls,
                   webhook_calls>>

(* ================= webhook path of src/app.py ================= *)

\* the user messages that carry a non-empty id
UserMessagesWithId(messages) ==
    {i \in 1..Len(messages) :
        /\ messages[i].role = "user"
        /\ "id" \in DOMAIN messages[i]
        /\ Truthy(messages[i].id)}

\* a derivation that takes the id of the last user message that has one
_get_n8n_session_id_latest(request_body, n) ==
    LET history_metadata == request_body.history_metadata
        conversation_id ==
            IF Truthy(history_metadata.conversation_id)
            THEN history_metadata.conversation_id
            ELSE request_body.conversation_id
        messages == request_body.messages
        with_id == UserMessagesWithId(messages)
    IN  IF Truthy(conversation_id)
        THEN [session_id |-> conversation_id, uuids |-> n]
        ELSE IF with_id # {}
        THEN [session_id |->
                  messages[CHOOSE i \in with_id : \A j \in with_id : j <= i].id,
              uuids |-> n]
        ELSE [session_id |-> Uuid4(n), uuids |-> n + 1]

\* _get_n8n_session_id when n identifiers have been generated: the session
\* id and the new count.  `a or b` is b when a is falsy; the loop runs over
\* the messages from the first to the last.
_get_n8n_session_id(request_body, n) ==
    LET history_metadata == request_body.history_metadata
        conversation_id ==
            IF Truthy(history_metadata.conversation_id)
            THEN history_metadata.conversation_id
            ELSE request_body.conversation_id
        messages == request_body.messages
        with_id == UserMessagesWithId(messages)
    IN  IF Truthy(conversation_id)
        THEN [session_id |-> conversation_id, uuids |-> n]
        ELSE IF with_id # {}
        THEN [session_id |->
                  messages[CHOOSE i \in with_id : \A j \in with_id : i <= j].id,
              uuids |-> n]
        ELSE [session_id |-> Uuid4(n), uuids |-> n + 1]

\* `next((item.get("text", "") for item in content if isinstance(item, dict)
\* and item.get("type") == "text"), "")`
FirstTextOf(content) ==
    LET items == content.items
        texts == {i \in 1..Len(items) :
                     /\ items[i].type = "dict"
                     /\ JHasKey(items[i], "type")
                     /\ JGet(items[i], "type") = JStr("text")}
    IN  IF texts = {} THEN ""
        ELSE LET item == items[CHOOSE i \in texts : \A j \in texts : i <= j]
             IN  IF JHasKey(item, "text") THEN JGet(item, "text").value ELSE ""

\* a chat input that takes the first user message of the conversation
_get_n8n_chat_input_first(request_body) ==
    LET messages == request_body.messages
        users == {i \in 1..Len(messages) : messages[i].role = "user"}
    IN  IF users = {} THEN ""
        ELSE LET message == messages[CHOOSE i \in users : \A j \in users : i <= j]
                 content == IF "content" \in DOMAIN message
                            THEN message.content ELSE JStr("")
             IN  IF content.type = "list" THEN FirstTextOf(content)
                 ELSE content.value

\* _get_n8n_chat_input: the content of the last user message (for a list,
\* the text of its first item of type text), "" without a user message
_get_n8n_chat_input(request_body) ==
    LET messages == request_body.messages
        users == {i \in 1..Len(messages) : messages[i].role = "user"}
    IN  IF users = {} THEN ""
        ELSE LET message == messages[CHOOSE i \in users : \A j \in users : j <= i]
                 content == IF "content" \in DOMAIN message
                            THEN message.content ELSE JStr("")
             IN  IF content.type = "list" THEN FirstTextOf(content)
                 ELSE content.value

\* the text keys probed with `message` first
N8nTextKeysMessageFirst ==
    <<"message", "output", "answer", "response", "text", "content">>

\* _extract_n8n_output
N8nTextKeys == <<"output", "answer", "response", "text", "content", "message">>
RECURSIVE _extract_n8n_output(_)
_extract_n8n_output(payload) ==
    CASE payload.type = "null" -> ""
      [] payload.type = "list" ->
             IF payload.items # <<>> THEN _extract_n8n_output(payload.items[1])
             ELSE ""
      [] payload.type = "dict" ->
             IF JHasKey(payload, "json")
             THEN _extract_n8n_output(JGet(payload, "json"))
             ELSE LET texts == {i \in 1..Len(N8nTextKeys) :
                                   /\ JHasKey(payload, N8nTextKeys[i])
                                   /\ JGet(payload, N8nTextKeys[i]).type = "str"}
                  IN  IF texts # {}
                      THEN JGet(payload,
                                N8nTextKeys[CHOOSE i \in texts :
                                                \A j \in texts : i <= j]).value
                      ELSE IF JHasKey(payload, "data")
                      THEN _extract_n8n_output(JGet(payload, "data"))
                      ELSE IF JHasKey(payload, "result")
                      THEN _extract_n8n_output(JGet(payload, "result"))
                      ELSE ""
      [] payload.type = "str" -> payload.value
      [] OTHER -> ""

\* int(time.time()) stands as one fixed value
created_ts == "ts"

\* _format_n8n_response
_format_n8n_response(message, history_metadata, response_id, is_streaming) ==
    [id |-> response_id,
     model |-> "n8n",
     created |-> created_ts,
     object |-> IF is_streaming THEN "chat.completion.chunk"
                ELSE "chat.completion",
     choices |-> << [messages |-> << [role |-> "assistant",
                                      content |-> message] >>] >>,
     history_metadata |-> history_metadata,
     apim_request_id |-> None]

\* exceptions of the webhook path: the class and str(exc)
N8nException(type, message) == [type |-> type, message |-> message]
N8nConfigError ==
    [no_url |-> N8nException("ValueError",
                    "N8N_WEBHOOK_URL is required when CHAT_PROVIDER=n8n"),
     no_token |-> N8nException("ValueError",
                    "N8N_BEARER_TOKEN is required when CHAT_PROVIDER=n8n")]
NoAssistantResponse ==
    N8nException("ValueError", "No assistant response returned from n8n")
\* what the POST, raise_for_status and response.json() can raise
N8nResponseExceptions ==
    { N8nException("ConnectError", "All connection attempts failed"),
      N8nException("ReadTimeout", ""),
      N8nException("HTTPStatusError", "Server error '500 Internal Server Error'"),
      N8nException("JSONDecodeError", "Expecting value: line 1 column 1 (char 0)") }
\* isinstance(exc, ValueError): json.JSONDecodeError is a ValueError
IsValueError(exc) == exc.type \in {"ValueError", "JSONDecodeError"}

\* the except clause of _complete_n8n_request
N8nErrorMessage(exc) ==
    IF IsValueError(exc) THEN exc.message
    ELSE "There was an error contacting the n8n service. Please try again."

\* what the request hands to conversation_internal: _complete_n8n_request's
\* result, which generate() of _stream_n8n_request retags and yields
N8nResult(message) ==
    << _format_n8n_response(message, n8n_call.request_body.history_metadata,
                            n8n_call.response_id, stream) >>

\* a request arrives: _stream_n8n_request / _complete_n8n_request up to the
\* await of the POST, or to the end when the configuration is missing
N8nRequest(request_body) ==
    /\ n8n_pc = "idle"
    /\ Len(n8n_requests) < MaxN8nRequests
    /\ LET outer == IF stream THEN uuids + 1 ELSE uuids
           s == _get_n8n_session_id(request_body, outer)
           chat_input == _get_n8n_chat_input(request_body)
           response_id == IF stream THEN Uuid4(uuids) ELSE Uuid4(s.uuids)
           posted == n8n_configured = "ok"
           call == [method |-> IF stream THEN "_stream_n8n_request"
                               ELSE "_complete_n8n_request",
                    request_body |-> request_body,
                    response_id |-> response_id]
           request == [request_body |-> request_body,
                       session_id |-> s.session_id,
                       chat_input |-> chat_input,
                       posted |-> posted]
       IN  /\ uuids' = s.uuids + 1
           /\ n8n_call' = IF posted THEN call
                          ELSE WithLocal(call, "exc",
                                         N8nConfigError[n8n_configured])
           /\ n8n_requests' =
                  Append(n8n_requests,
                         IF posted
                         THEN WithLocal(request, "payload",
                                        [chatInput |-> chat_input,
                                         sessionId |-> s.session_id])
                         ELSE request)
           /\ IF posted
              THEN /\ n8n_pc' = "post"
                   /\ n8n_result' = <<>>
              ELSE /\ n8n_pc' = "idle"
                   /\ n8n_result' =
                          << _format_n8n_response(
                                 N8nErrorMessage(N8nConfigError[n8n_configured]),
                                 request_body.history_metadata, response_id,
                                 stream) >>
    /\ UNCHANGED <<turn_vars, cosmos_vars, provider_vars, n8n_configured>>

\* the webhook answers 2xx with a JSON body
N8nResponds(payload) ==
    /\ n8n_pc = "post"
    /\ payload \in N8nPayloads
    /\ LET message == _extract_n8n_output(payload)
           call == WithLocal(WithLocal(n8n_call, "payload", payload),
                             "message", message)
       IN  IF message # ""
           THEN /\ n8n_result' = N8nResult(message)
                /\ n8n_call' = call
           ELSE /\ n8n_result' = N8nResult(N8nErrorMessage(NoAssistantResponse))
                /\ n8n_call' = WithLocal(call, "exc", NoAssistantResponse)
    /\ n8n_pc' = "idle"
    /\ UNCHANGED <<turn_vars, cosmos_vars, provider_vars, n8n_configured, n8n_requests,
                   uuids>>

\* the POST, raise_for_status or response.json() raises
N8nFails(exc) ==
    /\ n8n_pc = "post"
    /\ exc \in N8nResponseExceptions
    /\ n8n_result' = N8nResult(N8nErrorMessage(exc))
    /\ n8n_call' = WithLocal(n8n_call, "exc", exc)
    /\ n8n_pc' = "idle"
    /\ UNCHANGED <<turn_vars, cosmos_vars, provider_vars, n8n_configured, n8n_requests,
                   uuids>>

(* ========== startup and history endpoints of src/app.py ========== *)

\* init() starts and suspends in `await init_cosmosdb_client()`
InitStarts ==
    /\ init_pc = "start"
    /\ init_pc' = "await"
    /\ UNCHANGED <<turn_vars, provider_vars, n8n_vars, uuids, chat_history,
                   cosmos_conversation_client, cosmos_db_ready, handler_pc,
                   cosmos_uses>>

\* init_cosmosdb_client returns (the client, or None when chat history is
\* not configured): init() assigns it and sets the event
InitAssigns ==
    /\ init_pc = "await"
    /\ cosmos_conversation_client' =
           IF chat_history THEN CosmosClient ELSE None
    /\ cosmos_db_ready' = TRUE
    /\ init_pc' = "done"
    /\ UNCHANGED <<turn_vars, provider_vars, n8n_vars, uuids, chat_history,
                   handler_pc, cosmos_uses>>

\* init_cosmosdb_client raises: init() assigns None and re-raises
InitFails ==
    /\ init_pc = "await"
    /\ chat_history
    /\ cosmos_conversation_client' = None
    /\ init_pc' = "failed"
    /\ UNCHANGED <<turn_vars, provider_vars, n8n_vars, uuids, chat_history,
                   cosmos_db_ready, handler_pc, cosmos_uses>>

\* a request arrives: the handler reaches `await cosmos_db_ready.wait()`
HandlerStarts(h) ==
    /\ handler_pc[h] = "idle"
    /\ handler_pc' = [handler_pc EXCEPT ![h] = "wait"]
    /\ UNCHANGED <<turn_vars, provider_vars, n8n_vars, uuids, chat_history,
                   cosmos_conversation_client, cosmos_db_ready, init_pc,
                   cosmos_uses>>

\* a handler that goes on without the event
HandlerProceedsWithoutWaiting(h) ==
    /\ handler_pc[h] = "wait"
    /\ handler_pc' = [handler_pc EXCEPT ![h] = "run"]
    /\ UNCHANGED <<turn_vars, provider_vars, n8n_vars, uuids, chat_history,
                   cosmos_conversation_client, cosmos_db_ready, init_pc,
                   cosmos_uses>>

\* Event.wait() returns: the event is set
HandlerProceeds(h) ==
    /\ handler_pc[h] = "wait"
    /\ cosmos_db_ready
    /\ handler_pc' = [handler_pc EXCEPT ![h] = "run"]
    /\ UNCHANGED <<turn_vars, provider_vars, n8n_vars, uuids, chat_history,
                   cosmos_conversation_client, cosmos_db_ready, init_pc,
                   cosmos_uses>>

\* the handler reads current_app.cosmos_conversation_client (to check it or
\* to call it) and runs to its end
HandlerUsesClient(h) ==
    /\ handler_pc[h] = "run"
    /\ (h = "ensure_cosmos") => chat_history
    /\ cosmos_uses' = cosmos_uses \cup
           {[handler |-> h, client |-> cosmos_conversation_client]}
    /\ handler_pc' = [handler_pc EXCEPT ![h] = "idle"]
    /\ UNCHANGED <<turn_vars, provider_vars, n8n_vars, uuids, chat_history,
                   cosmos_conversation_client, cosmos_db_ready, init_pc>>

\* ensure_cosmos answers 404 when chat history is not configured
EnsureCosmosNotConfigured ==
    /\ handler_pc["ensure_cosmos"] = "run"
    /\ ~chat_history
    /\ handler_pc' = [handler_pc EXCEPT !["ensure_cosmos"] = "idle"]
    /\ UNCHANGED <<turn_vars, provider_vars, n8n_vars, uuids, chat_history,
                   cosmos_conversation_client, cosmos_db_ready, init_pc,
                   cosmos_uses>>

(* ---------------- specification ---------------- *)

FetchAnswers == {"OK", "NOT_OK", "EXC", "NONE"}

Next ==
    \/ \E fetch \in FetchAnswers : StreamFirstRequest(fetch)
    \/ \E fetch \in FetchAnswers : StreamFirstRequestFails(fetch)
    \/ \E c \in PlainChunks \cup FragmentChunks : ReadChunk(c)
    \/ \E c \in PlainChunks \cup FragmentChunks : ReadChunkPlain(c)
    \/ ReadChunkFails
    \/ EndOfStream
    \/ \E r \in ToolResponses : InvokeReturns(r)
    \/ \E e \in InvokeExceptions("a") : InvokeRaises(e)
    \/ \E fetch \in FetchAnswers : SendSecondRequest(fetch)
    \/ \E fetch \in FetchAnswers : SendSecondRequestFails(fetch)
    \/ ReadSecondChunk
    \/ ReadSecondChunkFails
    \/ SecondStreamEnds
    \/ \E fetch \in FetchAnswers, r \in Responses : CompleteFirstRequest(fetch, r)
    \/ \E fetch \in FetchAnswers : CompleteFirstRequestFails(fetch)
    \/ \E r \in ToolResponses : CompleteInvokeReturns(r)
    \/ \E e \in InvokeExceptions("a") : CompleteInvokeRaises(e)
    \/ \E fetch \in FetchAnswers, r \in Responses : CompleteSecondRequest(fetch, r)
    \/ \E fetch \in FetchAnswers : CompleteSecondRequestFails(fetch)

Spec == Init /\ [][Next]_vars

\* no primary-provider turn is in progress
TurnIdle ==
    /\ function_call_azure_functions_enabled = FALSE
    /\ azure_openai_tools = <<>>
    /\ azure_openai_available_tools = <<>>
    /\ request_messages = <<>>
    /\ request_json = <<>>
    /\ pc = "idle"
    /\ function_call_stream_state = AzureOpenaiFunctionCallStreamState
    /\ idx = 0
    /\ response = None
    /\ function_response = <<>>
    /\ non_streaming_response = None
    /\ requests = <<>>
    /\ emitted = <<>>
    /\ invoked = <<>>
    /\ outcome = "pending"
    /\ error = None
    /\ received = <<>>
    /\ completed_returns = 0
    /\ splices = 0
    /\ chunks_read = 0
    /\ second_read = 0
    /\ registry_fetches = <<>>

\* backend/chat_provider.py on its own: calls of the session manager and of
\* one call of one of the provider's two methods
ProviderInit ==
    /\ stream = FALSE
    /\ TurnIdle
    /\ N8nIdle
    /\ ProviderIdle
    /\ CosmosIdle
    /\ uuids = 0

ProviderNext ==
    \/ \E u \in Users, c \in ConversationIds : GetOrCreateSession(u, c)
    \/ \E m \in ProviderConversations, h \in HistoryMetadata, u \in Users :
           SendMessage(m, h, u)
    \/ \E m \in ProviderConversations, h \in HistoryMetadata, u \in Users :
           SendMessageNonStreaming(m, h, u)
    \/ \E p \in WebhookPayloads : WebhookReturns(p)
    \/ \E e \in WebhookExceptions : WebhookRaises(e)

ProviderSpec == ProviderInit /\ [][ProviderNext]_vars

\* the webhook path of src/app.py on its own: CHAT_PROVIDER is n8n, the
\* settings are fixed, requests are served one after the other
N8nInit ==
    /\ stream \in BOOLEAN
    /\ TurnIdle
    /\ ProviderIdle
    /\ CosmosIdle
    /\ n8n_configured \in {"ok", "no_url", "no_token"}
    /\ n8n_pc = "idle"
    /\ n8n_call = NoCall
    /\ n8n_requests = <<>>
    /\ n8n_result = <<>>
    /\ uuids = 0

N8nNext ==
    \/ \E b \in N8nRequestBodies : N8nRequest(b)
    \/ \E p \in N8nPayloads : N8nResponds(p)
    \/ \E e \in N8nResponseExceptions : N8nFails(e)

N8nSpec == N8nInit /\ [][N8nNext]_vars

\* startup and the history endpoints on their own: requests may arrive
\* before, while and after init() runs
CosmosInit ==
    /\ stream = FALSE
    /\ TurnIdle
    /\ ProviderIdle
    /\ N8nIdle
    /\ uuids = 0
    /\ chat_history \in BOOLEAN
    /\ CosmosStart

CosmosNext ==
    \/ InitStarts
    \/ InitAssigns
    \/ InitFails
    \/ \E h \in Handlers : HandlerStarts(h)
    \/ \E h \in Handlers : HandlerProceeds(h)
    \/ \E h \in Handlers : HandlerUsesClient(h)
    \/ EnsureCosmosNotConfigured

CosmosSpec == CosmosInit /\ [][CosmosNext]_vars

(* ======================= properties ======================= *)

\* the accumulator has finalized its calls: it is executing them or is done
Finalized ==
    /\ stream
    /\ \/ pc = "invoke"
       \/ function_call_stream_state.streaming_state = "COMPLETED"

\* what generate() yielded from the first / from a second upstream stream
YieldedOfPass(n) ==
    SelectSeq(emitted, LAMBDA e : "pass" \in DOMAIN e /\ e.pass = n)
ErrorChunks == SelectSeq(emitted, LAMBDA e : "error" \in DOMAIN e)

\* the messages the orchestrator synthesizes, wherever they are
IsSynthesized(m) == m.role = "function" \/ "function_call" \in DOMAIN m

\* C1: within one streamed turn process_function_call_stream returns
\* COMPLETED for exactly one chunk: no later chunk of the same stream is
\* answered with COMPLETED again.
C1_CompletedReturnedOnce == completed_returns <= 1

\* C2: a streamed turn issues at most two upstream requests and splices the
\* synthesized function messages into request_body["messages"] at most once.
C2_AtMostTwoRequestsOneSplice ==
    stream => (Len(requests) <= 2 /\ splices <= 1)

\* C3: when the upstream stream ends while the accumulator is STREAMING, the
\* dangling call is finalized and invoked and the second round-trip is made.
C3_DanglingCallFinalizedAtStreamEnd ==
    ( /\ stream
      /\ pc = "done"
      /\ outcome = "stream_end"
      /\ function_call_stream_state.streaming_state = "STREAMING"
      /\ function_call_stream_state.current_tool_call # NoToolCall )
    => ( /\ function_call_stream_state.tool_calls # <<>>
         /\ invoked # <<>>
         /\ Len(requests) >= 2 )

\* the calls of a fragment sequence as the specification attributes them:
\* one call per id-bearing fragment, in start order, whose arguments are the
\* chunks of the id-less fragments that follow it up to the next start
RECURSIVE CallsByStart(_, _)
CallsByStart(frags, calls) ==
    IF frags = <<>> THEN calls
    ELSE LET f == Head(frags)
         IN  IF Truthy(f.id)
             THEN CallsByStart(Tail(frags),
                               Append(calls, [tool_id |-> f.id,
                                              tool_arguments |-> ""]))
             ELSE IF calls = <<>>
             THEN CallsByStart(Tail(frags), calls)
             ELSE CallsByStart(Tail(frags),
                               [calls EXCEPT ![Len(calls)].tool_arguments =
                                    @ \o ArgumentsText(f)])

\* a fragment sequence that opens with a call start and holds several starts
SeveralCalls(frags) ==
    /\ frags # <<>>
    /\ Truthy(frags[1].id)
    /\ \E i \in 2..Len(frags) : Truthy(frags[i].id)

\* C4: the completed calls are in call-start order and each call's arguments
\* consist only of the chunks that arrived strictly after its own start
\* fragment and strictly before the next start fragment (or the end signal).
C4_CallsInStartOrderWithOwnArguments ==
    (Finalized /\ SeveralCalls(received)) =>
        LET tool_calls == function_call_stream_state.tool_calls
            expected == CallsByStart(received, <<>>)
        IN  /\ Len(tool_calls) = Len(expected)
            /\ \A k \in 1..Len(tool_calls) :
                   /\ tool_calls[k].tool_id = expected[k].tool_id
                   /\ tool_calls[k].tool_arguments = expected[k].tool_arguments

\* one id-bearing fragment followed by id-less fragments only
SingleCall(frags) ==
    /\ frags # <<>>
    /\ Truthy(frags[1].id)
    /\ \A i \in 2..Len(frags) : ~Truthy(frags[i].id)

RECURSIVE ConcatArguments(_)
ConcatArguments(frags) ==
    IF frags = <<>> THEN ""
    ELSE ArgumentsText(Head(frags)) \o ConcatArguments(Tail(frags))

\* C5: for a fragment sequence with exactly one call, the single completed
\* call's tool_arguments is the concatenation of the continuation fragments'
\* argument chunks in arrival order.
C5_SingleCallArgumentsAreConcatenation ==
    (Finalized /\ SingleCall(received)) =>
        /\ Len(function_call_stream_state.tool_calls) = 1
        /\ function_call_stream_state.tool_calls[1].tool_arguments
               = ConcatArguments(Tail(received))

\* C5 witness: one call finalized from two continuation chunks that differ
C5_Witness ==
    /\ Finalized
    /\ SingleCall(received)
    /\ Len(received) = 3
    /\ function_call_stream_state.tool_calls[1].tool_arguments = "ab"

\* the invocations that returned a result
Answered == SelectSeq(invoked, LAMBDA c : c.result \in ToolResponses)

\* C6: the synthesized messages are, per completed call in arrival order, an
\* assistant message with function_call {name, arguments} and content null
\* followed by a function-role message with the call's name and the result;
\* the calls are invoked one at a time in that order; and the second upstream
\* request is sent with the messages extended by them.
C6_SynthesizedMessagesInCallOrder ==
    stream =>
        LET s == function_call_stream_state
            fm == s.function_messages
        IN  /\ Len(invoked) <= Len(s.tool_calls)
            /\ \A k \in 1..Len(invoked) :
                   /\ invoked[k].name = s.tool_calls[k].tool_name
                   /\ invoked[k].arguments = s.tool_calls[k].tool_arguments
            /\ Len(fm) = 2 * Len(Answered)
            /\ \A k \in 1..Len(Answered) :
                   /\ fm[2 * k - 1].role = "assistant"
                   /\ fm[2 * k - 1].content = None
                   /\ fm[2 * k - 1].function_call
                          = [name |-> s.tool_calls[k].tool_name,
                             arguments |-> s.tool_calls[k].tool_arguments]
                   /\ fm[2 * k].role = "function"
                   /\ fm[2 * k].name = s.tool_calls[k].tool_name
                   /\ fm[2 * k].content = invoked[k].result
            /\ s.streaming_state = "COMPLETED" => Len(invoked) = Len(s.tool_calls)
            /\ Len(requests) >= 2 =>
                   /\ s.streaming_state = "COMPLETED"
                   /\ requests[2].messages
                          = requests[1].messages \o PreparedMessages(fm)

\* C6 witness: two calls executed and the second request sent
C6_Witness ==
    /\ stream
    /\ function_call_stream_state.streaming_state = "COMPLETED"
    /\ Len(function_call_stream_state.tool_calls) = 2
    /\ Len(function_call_stream_state.function_messages) = 4
    /\ Len(requests) = 2

\* C7: with function calling enabled a first-pass chunk is yielded only when
\* the accumulator is and stays INITIAL for it: never a chunk that carries
\* tool-call fragments, never a chunk received while STREAMING.
C7_OnlyInitialChunksEmitted ==
    [][ ( /\ function_call_azure_functions_enabled
          /\ YieldedOfPass(1)' # YieldedOfPass(1) )
        => ( /\ function_call_stream_state.streaming_state = "INITIAL"
             /\ function_call_stream_state'.streaming_state = "INITIAL"
             /\ received' = received
             /\ emitted'[Len(emitted')].chunk.tool_calls = <<>> ) ]_vars

\* C7 witness: a text chunk was yielded, then two chunks of a tool call were
\* read and held back
C7_Witness ==
    /\ stream
    /\ function_call_azure_functions_enabled
    /\ function_call_stream_state.streaming_state = "STREAMING"
    /\ chunks_read = 3
    /\ Len(emitted) = 1

\* C8: on the streaming path a failure after streaming has begun (a failing
\* chunk read, a failing side-effect invocation, a failing second
\* round-trip) ends the client's stream with exactly one well-formed
\* assistant-role error chunk.
C8_StreamFailureClosedByErrorChunk ==
    [][ ( /\ stream
          /\ pc \in {"read", "invoke", "send2", "read2"}
          /\ error' # None )
        => ( /\ pc' = "done"
             /\ Len(emitted') = Len(emitted) + 1
             /\ SubSeq(emitted', 1, Len(emitted)) = emitted
             /\ "error" \in DOMAIN emitted'[Len(emitted')]
             /\ emitted'[Len(emitted')].role = "assistant"
             /\ emitted'[Len(emitted')].object = "chat.completion.chunk"
             /\ Len(ErrorChunks') = 1 ) ]_vars

\* C8 witness: the second round-trip failed after a chunk had been yielded
C8_Witness ==
    /\ stream
    /\ pc = "done"
    /\ error = "UpstreamError"
    /\ Len(requests) = 2
    /\ Len(emitted) = 2

\* C9: a side-effect invocation that fails with a non-2xx response fails the
\* whole turn on both paths: no second upstream request, no synthesized
\* message in request_body["messages"], no tool result to the client.
C9_FailedInvocationFailsTurn ==
    (error = "HTTPStatusError") =>
        /\ pc = "done"
        /\ Len(requests) = 1
        /\ splices = 0
        /\ \A i \in 1..Len(request_messages) : ~IsSynthesized(request_messages[i])
        /\ YieldedOfPass(2) = <<>>
        /\ outcome = (IF stream THEN "stream_error" ELSE "error_response")

\* C9 witness: the second of two calls failed after the first had returned
C9_Witness ==
    /\ stream
    /\ error = "HTTPStatusError"
    /\ Len(invoked) = 2
    /\ Len(function_call_stream_state.function_messages) = 2

\* C10: on the streaming path a completed call whose name is not in
\* azure_openai_available_tools is never passed to the invoker.
C10_UnknownCallNeverInvoked ==
    stream =>
        \A k \in 1..Len(invoked) :
            InList(invoked[k].name, azure_openai_available_tools)

\* the non-streaming turn returned a response to its caller
Returned == ~stream /\ pc = "done" /\ outcome = "returned"

\* the calls process_function_call executed to the end
ExecutedCalls == SelectSeq(invoked, LAMBDA c : c.result \in ToolResponses)

\* C11: on the non-streaming path process_function_call never invokes a tool
\* call whose name is not in azure_openai_available_tools and appends no
\* message for it; when every tool call of the first response is unknown no
\* second upstream request is made and the first response is returned.
C11_UnknownCallsSkippedNonStreaming ==
    ~stream =>
        /\ \A k \in 1..Len(invoked) :
               InList(invoked[k].name, azure_openai_available_tools)
        /\ Len(function_response) = 2 * Len(ExecutedCalls)
        /\ \A i \in 1..Len(function_response) :
               LET m == function_response[i]
                   name == IF m.role = "function" THEN m.name
                           ELSE m.function_call.name
               IN  InList(name, azure_openai_available_tools)
        /\ ( /\ Returned
             /\ \A i \in 1..Len(response.tool_calls) :
                    ~InList(response.tool_calls[i].name,
                            azure_openai_available_tools) )
           => /\ Len(requests) = 1
              /\ invoked = <<>>
              /\ splices = 0
              /\ non_streaming_response = NonStreamingResponse(1, response)

\* C11 witness: the first response carried two calls, both unknown, while
\* the registry was loaded; the turn returned after one request
C11_Witness ==
    /\ Returned
    /\ azure_openai_available_tools # <<>>
    /\ Len(response.tool_calls) = 2
    /\ \A i \in 1..2 : response.tool_calls[i].name = "g"
    /\ Len(requests) = 1
    /\ non_streaming_response.round = 1

\* C12: complete_chat_request issues at most two upstream requests per turn;
\* when the first response's calls yield synthesized messages these are
\* appended once and exactly one more request is made, whose response is
\* returned; tool calls of that second response are not executed.
C12_AtMostTwoRequestsNonStreaming ==
    ~stream =>
        /\ Len(requests) <= 2
        /\ splices <= 1
        /\ (invoked # <<>>) => Len(invoked) <= Len(response.tool_calls)
        /\ (Returned /\ function_response # <<>>) =>
               /\ Len(requests) = 2
               /\ splices = 1
               /\ non_streaming_response.round = 2
               /\ Len(function_response) = 2 * Len(invoked)
               /\ SubSeq(request_messages,
                         Len(request_messages) - Len(function_response) + 1,
                         Len(request_messages)) = function_response
               /\ requests[2].messages =
                      prepare_model_args(request_messages,
                                         function_call_azure_functions_enabled,
                                         azure_openai_tools).messages

\* C12 witness: the second response asked for a known tool again and was
\* returned as it is
C12_Witness ==
    /\ Returned
    /\ non_streaming_response.round = 2
    /\ non_streaming_response.message.tool_calls # <<>>
    /\ non_streaming_response.message.tool_calls[1].name = "f"
    /\ non_streaming_response.message.tool_calls[1].arguments = "a"
    /\ Len(invoked) = 1
    /\ Len(requests) = 2

\* C13: the registry lists are populated by one initialization fetch and are
\* immutable afterwards: once they hold the fetched tools no step changes
\* them and no request fetches the registry again.
C13_RegistryImmutableAfterFirstFetch ==
    [][ (azure_openai_tools # <<>>) =>
            /\ azure_openai_tools' = azure_openai_tools
            /\ azure_openai_available_tools' = azure_openai_available_tools
            /\ registry_fetches' = registry_fetches ]_vars

\* C14: when a registry fetch fails (the GET raises or answers non-200) no
\* later request fetches again, and the chat request that met the failure
\* still completes.
C14_FailedFetchNotRetriedRequestCompletes ==
    \A i \in 1..Len(registry_fetches) :
        (registry_fetches[i] # "OK") =>
            /\ i = Len(registry_fetches)
            /\ ~(pc = "done" /\ error # None /\ Len(requests) < i)

\* C15: ingesting a chunk (the no-tool-calls signal among them) while the
\* accumulator is COMPLETED leaves tool_calls, current_tool_call,
\* tool_arguments_stream and function_messages as they are, answers
\* COMPLETED and invokes nothing.
C15_CompletedAccumulatorIgnoresEndSignal ==
    [][ ( /\ stream
          /\ pc = "read"
          /\ function_call_stream_state.streaming_state = "COMPLETED"
          /\ chunks_read' = chunks_read + 1 )
        => /\ process_function_call_stream(TextChunk, function_call_stream_state)
                = [state |-> function_call_stream_state, ret |-> "COMPLETED"]
           /\ function_call_stream_state' = function_call_stream_state
           /\ invoked' = invoked
           /\ pc' # "invoke" ]_vars

\* C15 witness: a chunk was ingested after the accumulator had completed and
\* was answered with COMPLETED as well
C15_Witness ==
    /\ stream
    /\ function_call_stream_state.streaming_state = "COMPLETED"
    /\ completed_returns = 2
    /\ chunks_read = 3

\* calls i and j of get_or_create_session named the same user and the same
\* conversation
SamePair(i, j) ==
    /\ session_calls[i].user_id = session_calls[j].user_id
    /\ session_calls[i].conversation_id = session_calls[j].conversation_id

\* every two calls for the same user and non-empty conversation id got the
\* same session id
SameSessionForSamePair ==
    \A i, j \in 1..Len(session_calls) :
        (SamePair(i, j) /\ Truthy(session_calls[i].conversation_id))
            => session_calls[i].session_id = session_calls[j].session_id

\* C16: for a non-empty conversation_id get_or_create_session returns the
\* same session id on every call for the same (user, conversation_id),
\* whatever calls are interleaved, and a map entry once written is never
\* changed or removed.
C16_SessionStablePerUserAndConversation ==
    [][ /\ \A key \in DOMAIN _sessions :
               key \in DOMAIN _sessions' /\ _sessions'[key] = _sessions[key]
        /\ SameSessionForSamePair' ]_vars

\* C16 witness: the same pair was asked for twice with a call for another
\* pair in between that created its own session
C16_Witness ==
    /\ Len(session_calls) = 3
    /\ Truthy(session_calls[1].conversation_id)
    /\ Truthy(session_calls[2].conversation_id)
    /\ SamePair(1, 3)
    /\ ~SamePair(1, 2)
    /\ session_calls[1].session_id = session_calls[3].session_id
    /\ session_calls[2].session_id # session_calls[1].session_id

\* C17: get_or_create_session(user, None) returns an identifier no other
\* call has returned, and stores nothing: the map holds entries of calls
\* with a conversation id only, and never the identifier given to such a call.
C17_NoConversationIdGivesFreshSession ==
    /\ \A i \in 1..Len(session_calls) :
           ~Truthy(session_calls[i].conversation_id) =>
               /\ \A j \in 1..Len(session_calls) :
                      (j # i) => session_calls[j].session_id
                                    # session_calls[i].session_id
               /\ \A key \in DOMAIN _sessions :
                      _sessions[key] # session_calls[i].session_id
    /\ \A key \in DOMAIN _sessions :
           \E i \in 1..Len(session_calls) :
               /\ Truthy(session_calls[i].conversation_id)
               /\ key = SessionKey(session_calls[i].user_id,
                                   session_calls[i].conversation_id)

\* C17 witness: the same user asked twice without a conversation id, after
\* a call that stored a session
C17_Witness ==
    /\ Len(session_calls) = 3
    /\ Truthy(session_calls[1].conversation_id)
    /\ session_calls[2].conversation_id = None
    /\ session_calls[3].conversation_id = None
    /\ session_calls[2].user_id = session_calls[3].user_id
    /\ session_calls[2].session_id # session_calls[3].session_id
    /\ DOMAIN _sessions = {SessionKey(session_calls[1].user_id,
                                      session_calls[1].conversation_id)}

\* C18: two calls by different users for the same conversation id, and two
\* calls by the same user for different conversation ids, get different
\* session ids.
C18_SessionsSeparateUsersAndConversations ==
    \A i, j \in 1..Len(session_calls) :
        ( \/ /\ session_calls[i].user_id # session_calls[j].user_id
             /\ session_calls[i].conversation_id
                    = session_calls[j].conversation_id
          \/ /\ session_calls[i].user_id = session_calls[j].user_id
             /\ session_calls[i].conversation_id
                    # session_calls[j].conversation_id )
        => session_calls[i].session_id # session_calls[j].session_id

\* C18 witness: two users used conversation "d", and one of them also used
\* another conversation
C18_Witness ==
    /\ Len(session_calls) = 3
    /\ session_calls[1].conversation_id = "d"
    /\ session_calls[2].conversation_id = "d"
    /\ session_calls[1].user_id # session_calls[2].user_id
    /\ session_calls[3].user_id = session_calls[1].user_id
    /\ session_calls[3].conversation_id = "c:d"
    /\ Cardinality({session_calls[k].session_id : k \in 1..3}) = 3

\* the conversation holds no message of role user
NoUserMessage(messages) ==
    \A i \in 1..Len(messages) : messages[i].role # "user"

\* C20: send_message and send_message_non_streaming, called with a
\* conversation without a user-role message, answer with the fixed apology
\* and end at once: no webhook call is made and no session is created.
C20_NoUserMessageNoWebhookCall ==
    [][ ( /\ provider_call = NoCall
          /\ provider_call' # NoCall
          /\ NoUserMessage(provider_call'.messages) )
        => /\ Len(provider_result') = 1
           /\ provider_result'[1].choices[1].messages
                  = << [role |-> "assistant", content |-> friendly_message] >>
           /\ provider_pc' = "idle"
           /\ webhook_calls' = webhook_calls
           /\ session_calls' = session_calls
           /\ _sessions' = _sessions ]_vars

\* C20 witness: send_message was called with an assistant message only and
\* has yielded its one chunk
C20_Witness ==
    /\ provider_call # NoCall
    /\ provider_call.method = "send_message"
    /\ provider_call.messages = <<AssistantMessage>>
    /\ provider_pc = "idle"
    /\ Len(provider_result) = 1
    /\ webhook_calls = <<>>

\* the explicit conversation id of a request body: that of history_metadata,
\* else the top-level one, None when both are missing or empty
ExplicitConversationId(request_body) ==
    IF Truthy(request_body.history_metadata.conversation_id)
    THEN request_body.history_metadata.conversation_id
    ELSE IF Truthy(request_body.conversation_id)
    THEN request_body.conversation_id
    ELSE None

\* request k got an identifier that no request body carries and no other
\* request got
FreshSession(k) ==
    /\ n8n_requests[k].session_id \notin N8nCarriedIds
    /\ \A l \in 1..Len(n8n_requests) :
           (l # k) => n8n_requests[l].session_id # n8n_requests[k].session_id

\* the session id of request k follows the priority: explicit conversation
\* id, else the id of the user message at position Pick(with_id) among the
\* user messages that have an id, else a fresh identifier
SessionDerivedBy(k, Pick(_)) ==
    LET request_body == n8n_requests[k].request_body
        session_id == n8n_requests[k].session_id
        with_id == UserMessagesWithId(request_body.messages)
    IN  IF ExplicitConversationId(request_body) # None
        THEN session_id = ExplicitConversationId(request_body)
        ELSE IF with_id # {}
        THEN session_id = request_body.messages[Pick(with_id)].id
        ELSE FreshSession(k)

Latest(S) == CHOOSE i \in S : \A j \in S : j <= i
Earliest(S) == CHOOSE i \in S : \A j \in S : i <= j

\* C19 as claimed: the session id is history_metadata.conversation_id, else
\* the top-level conversation_id, else the id of the most recent user
\* message, else a fresh random identifier.
C19_SessionIdFromMostRecentUserMessage ==
    \A k \in 1..Len(n8n_requests) : SessionDerivedBy(k, Latest)

\* C19 amended: the session id is history_metadata.conversation_id, else
\* the top-level conversation_id, else the id of the first user message of
\* the conversation that carries an id, else a fresh random identifier.
C19_SessionIdFromFirstUserMessage ==
    \A k \in 1..Len(n8n_requests) : SessionDerivedBy(k, Earliest)

\* C19 witness: a request without conversation id whose two user messages
\* carry different ids got the first one's id, and a request that carries
\* no id at all got a fresh session
C19_Witness ==
    /\ Len(n8n_requests) = 2
    /\ ExplicitConversationId(n8n_requests[1].request_body) = None
    /\ n8n_requests[1].request_body.messages
           = <<N8nUser1, N8nAssistant, N8nUser2>>
    /\ n8n_requests[1].session_id = "m1"
    /\ ExplicitConversationId(n8n_requests[2].request_body) = None
    /\ n8n_requests[2].request_body.messages = <<N8nUserNoId>>
    /\ FreshSession(2)

\* the fixed text of the webhook path of src/app.py for a failed request
N8nApology ==
    "There was an error contacting the n8n service. Please try again."

\* the assistant text of the one element a webhook operation produced
ContentOf(result) == result[1].choices[1].messages[1].content

\* C21: on the webhook path of conversation_internal a request whose
\* conversation has no user-role message is answered with the fixed apology
\* and nothing is posted to the webhook.
C21_NoUserMessageNoPost ==
    /\ \A k \in 1..Len(n8n_requests) :
           NoUserMessage(n8n_requests[k].request_body.messages)
               => ~n8n_requests[k].posted
    /\ ( /\ n8n_call # NoCall
         /\ NoUserMessage(n8n_call.request_body.messages)
         /\ n8n_pc = "idle" )
       => (Len(n8n_result) = 1 /\ ContentOf(n8n_result) = N8nApology)

\* the paths of a finished provider call: no user message found, the
\* webhook answered, the webhook call raised
ProviderPath ==
    IF "n8n_response" \in DOMAIN provider_call THEN "success"
    ELSE IF "exception" \in DOMAIN provider_call
    THEN provider_call.exception
    ELSE "no_user_message"

\* C22: send_message yields exactly one element and then ends, on every
\* path (webhook answered, no user message, timeout, HTTP error, any other
\* exception): nothing is yielded while the webhook call is awaited, one
\* element is there when the generator has ended, and none is added later.
C22_SendMessageYieldsExactlyOne ==
    /\ [](provider_call.method = "send_message"
            => /\ provider_pc = "webhook" => provider_result = <<>>
               /\ provider_pc = "idle" => Len(provider_result) = 1)
    /\ [][(provider_call.method = "send_message" /\ provider_pc = "idle")
              => (provider_result' = provider_result /\ provider_pc' = "idle")]_vars

C22_Witness ==
    /\ provider_call.method = "send_message"
    /\ provider_pc = "idle"
    /\ ProviderPath = "TimeoutException"
    /\ Len(provider_result) = 1

\* the webhook path of src/app.py ended a request in its except clause
N8nFailed == n8n_pc = "idle" /\ "exc" \in DOMAIN n8n_call

\* C23: a failure of the webhook never reaches the client raw: whatever the
\* exception (transport error, timeout, non-2xx, non-JSON body, missing
\* configuration), the assistant text of the webhook path of src/app.py is
\* the one fixed text, independent of the exception's message.
C23_FailureTextIsFixed ==
    N8nFailed => ContentOf(n8n_result) = N8nApology

\* C24: when the webhook answers 2xx with a JSON body that is {} or of no
\* recognized shape, the provider treats it as a failure: the client gets
\* the apology text, never an empty text and never the raw payload.
C24_UnrecognizedPayloadGivesApology ==
    ( /\ provider_pc = "idle"
      /\ ProviderPath = "success" )
    => /\ provider_call.n8n_response = JDict(<<>>)
              => ContentOf(provider_result) = friendly_message
       /\ ContentOf(provider_result)
              \notin {"", JsonDumps(provider_call.n8n_response)}

\* the key is present in the dict and its value is a string
HasText(payload, key) ==
    JHasKey(payload, key) /\ JGet(payload, key).type = "str"

\* the probing order in words: a `json` wrapper; the first of output,
\* answer, response, text, content, message that is a string; a `data` or a
\* `result` wrapper; the payload itself when it is a string; else "".  With
\* unwrap_lists a non-empty list stands for its first element.
RECURSIVE ProbeInPriorityOrder(_, _)
ProbeInPriorityOrder(payload, unwrap_lists) ==
    IF payload.type = "list"
    THEN IF unwrap_lists /\ Len(payload.items) > 0
         THEN ProbeInPriorityOrder(payload.items[1], unwrap_lists)
         ELSE ""
    ELSE IF payload.type = "dict"
    THEN IF JHasKey(payload, "json")
         THEN ProbeInPriorityOrder(JGet(payload, "json"), unwrap_lists)
         ELSE IF HasText(payload, "output") THEN JGet(payload, "output").value
         ELSE IF HasText(payload, "answer") THEN JGet(payload, "answer").value
         ELSE IF HasText(payload, "response") THEN JGet(payload, "response").value
         ELSE IF HasText(payload, "text") THEN JGet(payload, "text").value
         ELSE IF HasText(payload, "content") THEN JGet(payload, "content").value
         ELSE IF HasText(payload, "message") THEN JGet(payload, "message").value
         ELSE IF JHasKey(payload, "data")
         THEN ProbeInPriorityOrder(JGet(payload, "data"), unwrap_lists)
         ELSE IF JHasKey(payload, "result")
         THEN ProbeInPriorityOrder(JGet(payload, "result"), unwrap_lists)
         ELSE ""
    ELSE IF payload.type = "str" THEN payload.value
    ELSE ""

\* the webhook answered and _extract_n8n_output has run on its payload
N8nExtracted == n8n_pc = "idle" /\ "payload" \in DOMAIN n8n_call

\* C25 as stated: _extract_n8n_output probes a `json` wrapper, then the
\* text keys, then a `data` or `result` wrapper, then a plain string, and
\* otherwise returns "" (a list payload gives "").
C25_ExtractProbesInStatedOrder ==
    N8nExtracted
        => n8n_call.message = ProbeInPriorityOrder(n8n_call.payload, FALSE)

\* C25: _extract_n8n_output first replaces a non-empty list by its first
\* element, then probes a `json` wrapper (unwrap and recurse), then the
\* first of output, answer, response, text, content, message whose value is
\* a string, then a `data` or `result` wrapper (unwrap and recurse), then
\* the payload itself if it is a string, and otherwise returns "":
\* {"json": {"output": "hello"}} gives "hello", {"data": {"message": "x"}}
\* gives "x", {} gives "".
C25_ExtractUnwrapsListsThenProbesInOrder ==
    N8nExtracted
        => /\ n8n_call.message = ProbeInPriorityOrder(n8n_call.payload, TRUE)
           /\ n8n_call.payload =
                  JDict(<<Item("json", JDict(<<Item("output", JStr("hello"))>>))>>)
                  => n8n_call.message = "hello"
           /\ n8n_call.payload =
                  JDict(<<Item("data", JDict(<<Item("message", JStr("x"))>>))>>)
                  => n8n_call.message = "x"
           /\ n8n_call.payload = JDict(<<>>) => n8n_call.message = ""

C25_Witness ==
    /\ N8nExtracted
    /\ n8n_call.payload =
           JList(<<JDict(<<Item("output", JStr("o"))>>), JStr("x")>>)
    /\ ContentOf(n8n_result) = "o"

\* C26: every element a streaming webhook operation produces, an error
\* element included, is tagged object = "chat.completion.chunk", and the
\* result of a non-streaming webhook operation is tagged "chat.completion"
\* (N8nChatProvider.send_message and send_message_non_streaming).
C26_StreamedElementsAreChunks ==
    \A i \in 1..Len(provider_result) :
        /\ provider_call.method = "send_message"
               => provider_result[i].object = "chat.completion.chunk"
        /\ provider_call.method = "send_message_non_streaming"
               => provider_result[i].object = "chat.completion"

\* the body the turn started with holds a message of role tool
ToolMessageReceived ==
    \E i \in 1..Len(request_json) : request_json[i].role = "tool"

\* C27: no request send_chat_request sends to the primary provider, in the
\* first or in the second round-trip, contains a message of role tool.
C27_NoToolMessageSentUpstream ==
    \A i \in 1..Len(requests) :
        \A j \in 1..Len(requests[i].messages) :
            requests[i].messages[j].role # "tool"

C27_Witness ==
    /\ ToolMessageReceived
    /\ Len(requests) = 2
    /\ \E j \in 1..Len(requests[2].messages) :
           requests[2].messages[j].role = "function"

\* sequence a is a prefix of sequence b
IsPrefix(a, b) == Len(a) <= Len(b) /\ SubSeq(b, 1, Len(a)) = a

\* C28: the orchestrator only ever appends to the conversation: at every
\* point of a turn the message list the request had before the turn is a
\* prefix of its message list, and no step removes, replaces or reorders a
\* message that is there.
C28_ConversationOnlyAppended ==
    /\ [](IsPrefix(request_json, request_messages))
    /\ [][IsPrefix(request_messages, request_messages')]_vars

\* the assistant texts with which the provider answers an upstream failure
UpstreamFailureTexts ==
    { ContentOf(<< _format_error_response(ProviderErrorMessage(e),
                                          provider_call.history_metadata,
                                          "") >>) : e \in WebhookExceptions }

\* C29: a request without a user message is reported as a validation
\* error with a message of its own: its outcome differs from the outcome of
\* an upstream failure (it is not the generic upstream apology).
C29_MissingUserMessageIsDistinguishable ==
    ( /\ provider_call # NoCall
      /\ provider_pc = "idle"
      /\ ProviderPath = "no_user_message" )
    => ContentOf(provider_result) \notin UpstreamFailureTexts

\* the last message of role user (the conversation has one)
LastUserOf(messages) ==
    messages[CHOOSE i \in 1..Len(messages) :
                /\ messages[i].role = "user"
                /\ \A j \in (i + 1)..Len(messages) : messages[j].role # "user"]

\* position of the first item of type text in a list of content items, 0
\* when there is none
RECURSIVE FirstTextItem(_, _)
FirstTextItem(items, i) ==
    IF i > Len(items) THEN 0
    ELSE IF /\ items[i].type = "dict"
            /\ \E n \in 1..Len(items[i].items) :
                   items[i].items[n] = Item("type", JStr("text"))
    THEN i
    ELSE FirstTextItem(items, i + 1)

\* the text of a message: its content, or for a list-valued content the
\* text of its first item of type text ("" when no item has that type)
TextOfMessage(message) ==
    IF message.content.type = "str" THEN message.content.value
    ELSE LET i == FirstTextItem(message.content.items, 1)
         IN  IF i = 0 THEN ""
             ELSE LET item == message.content.items[i]
                  IN  item.items[CHOOSE n \in 1..Len(item.items) :
                                     item.items[n].key = "text"].value.value

PostedRequests == {k \in 1..Len(n8n_requests) : n8n_requests[k].posted}

StreamingState == function_call_stream_state.streaming_state

\* C31: streaming_state only moves forward along INITIAL -> STREAMING ->
\* COMPLETED: no step takes it from STREAMING to INITIAL or from COMPLETED
\* to STREAMING or INITIAL, and COMPLETED is entered from STREAMING only.
C31_StreamingStateMovesForward ==
    [][ \/ StreamingState' = StreamingState
        \/ StreamingState = "INITIAL" /\ StreamingState' = "STREAMING"
        \/ StreamingState = "STREAMING" /\ StreamingState' = "COMPLETED" ]_vars

\* C31 witness: the accumulator went through STREAMING to COMPLETED and a
\* further chunk was ingested after that
C31_Witness ==
    /\ stream
    /\ StreamingState = "COMPLETED"
    /\ completed_returns = 2
    /\ Len(received) >= 1
    /\ chunks_read = 3

\* C32: the in-progress call (current_tool_call) is non-none only while the
\* status is STREAMING and a call start has been seen: it is none in
\* INITIAL and none again once the status is COMPLETED.
C32_CurrentToolCallOnlyWhileStreaming ==
    function_call_stream_state.current_tool_call # NoToolCall
        => /\ StreamingState = "STREAMING"
           /\ \E i \in 1..Len(received) : Truthy(received[i].id)

\* C33: whenever the accumulator is STREAMING its current_tool_call is set,
\* so the no-tool-calls signal received in STREAMING finalizes a call
\* instead of failing, whatever the fragments were (a first fragment
\* without id included).
C33_StreamingHasCurrentToolCall ==
    /\ StreamingState = "STREAMING"
           => function_call_stream_state.current_tool_call # NoToolCall
    /\ error # "TypeError"

\* the tool_arguments of the calls, concatenated in list order
RECURSIVE ConcatToolArguments(_)
ConcatToolArguments(tool_calls) ==
    IF tool_calls = <<>> THEN ""
    ELSE Head(tool_calls).tool_arguments \o ConcatToolArguments(Tail(tool_calls))

\* C34: the accumulator neither loses nor duplicates argument text: when
\* the calls are finalized, the concatenation of tool_arguments over
\* tool_calls equals the concatenation of the argument chunks of all
\* fragments received in the turn, in arrival order.
C34_ArgumentTextPreserved ==
    Finalized
        => ConcatToolArguments(function_call_stream_state.tool_calls)
               = ConcatArguments(received)

\* C35: for an upstream stream in which no chunk carries tool calls,
\* generate() yields every chunk it reads, with function calling enabled as
\* with function calling disabled (chunks with an empty choices list
\* included): the chunks yielded from the first stream are as many as the
\* chunks read.
C35_PlainStreamEmittedAlike ==
    (stream /\ received = <<>> /\ pc \in {"read", "done"} /\ error = None)
        => Len(YieldedOfPass(1)) = chunks_read

\* the last message of an upstream request
LastMessage(request) == request.messages[Len(request.messages)]

\* C36: a second round-trip request never offers tools to the provider:
\* the synthesized messages have been appended, so its last message has
\* role function and not user, on the streaming and on the non-streaming
\* path.
C36_SecondRequestOffersNoTools ==
    \A i \in 2..Len(requests) :
        /\ LastMessage(requests[i]).role = "function"
        /\ ~requests[i].has_tools
        /\ requests[i].tools = <<>>

\* C36 witness: the first request of a streamed turn offered the tools, a
\* call was executed and the second request was sent while the registry
\* still held tools
C36_Witness ==
    /\ stream
    /\ Len(requests) = 2
    /\ requests[1].has_tools
    /\ LastMessage(requests[1]).role = "user"
    /\ function_call_azure_functions_enabled
    /\ Len(azure_openai_tools) > 0
    /\ LastMessage(requests[2]).role = "function"

\* C37: two distinct (user_id, conversation_id) pairs with non-empty
\* conversation ids never share a session id, whatever characters the
\* identifiers contain (':' included): distinct pairs have distinct map
\* keys.
C37_DistinctPairsDistinctSessions ==
    \A i, j \in 1..Len(session_calls) :
        ( /\ ~SamePair(i, j)
          /\ Truthy(session_calls[i].conversation_id)
          /\ Truthy(session_calls[j].conversation_id) )
        => /\ SessionKey(session_calls[i].user_id,
                         session_calls[i].conversation_id)
                  # SessionKey(session_calls[j].user_id,
                               session_calls[j].conversation_id)
           /\ session_calls[i].session_id # session_calls[j].session_id

\* C38: a call opened by an id-bearing fragment takes its name from the
\* fragment, or the buffered name when the fragment omits it, so that no
\* completed call has a missing (null) name.
C38_CompletedCallsHaveNames ==
    \A k \in 1..Len(function_call_stream_state.tool_calls) :
        function_call_stream_state.tool_calls[k].tool_name # None

\* C39: no history handler uses current_app.cosmos_conversation_client
\* before init() has assigned it: a handler is past its wait only when the
\* event is set, the event is set only together with the assignment and is
\* never cleared, and after a failed initialization the event stays unset
\* and no handler proceeds.
C39_ClientNotUsedBeforeAssigned ==
    /\ [](\A u \in cosmos_uses : u.client # Unassigned)
    /\ [](\A h \in Handlers : handler_pc[h] = "run" => cosmos_db_ready)
    /\ [](cosmos_db_ready
            => init_pc = "done" /\ cosmos_conversation_client # Unassigned)
    /\ [](init_pc = "failed"
            => ~cosmos_db_ready /\ cosmos_uses = {})
    /\ [][cosmos_db_ready => cosmos_db_ready']_vars

\* C39 witness: the event is set; one handler is past its wait, another
\* request is at its wait, and a third handler has used the assigned client
C39_Witness ==
    /\ cosmos_db_ready
    /\ handler_pc["add_conversation"] = "run"
    /\ handler_pc["ensure_cosmos"] = "wait"
    /\ [handler |-> "update_message", client |-> CosmosClient] \in cosmos_uses

====
